---- MODULE Spec2Model ----
(***************************************************************************)
(* The resource store of src/composables/steve/type.ts (a Pinia store:     *)
(* state, getters, actions), its websocket watch machine, and the paged    *)
(* list helper of src/server/utils/api.ts.                                 *)
(*                                                                         *)
(* An async function is cut at its awaits: the code up to the first await  *)
(* runs inside the action that calls it, and every later segment is an     *)
(* action of its own, enabled while the call is recorded in `tasks`.       *)
(* The synchronous segments are operators on a record `s` of the store's   *)
(* fields, so that one handler can run several of them in a row.           *)
(***************************************************************************)
EXTENDS Integers, Sequences, FiniteSets, TLC

VARIABLES
    types,          \* state.types: type key -> cache {list, map, haveAll, revision, generation}
    heap,           \* the decorated instances: object number -> its data
    generation,     \* this.generation of the store
    tasks,          \* the async calls that are suspended at an await
    socket,         \* state.socket
    wantSocket,     \* state.wantSocket
    pendingFrames,  \* state.pendingFrames
    wire,           \* the frames socket.send accepted, not yet read by the server
    started,        \* state.started
    inError,        \* state.inError
    queue,          \* state.queue
    queueTimer,     \* this.queueTimer
    ret,            \* the last call that returned or threw: its name, argument and outcome
    page,           \* the apiList call of src/server/utils/api.ts
    route,          \* the request the modelfiles route of src/server/routes is handling
    timers,         \* the handles of the setTimeout calls of flushQueue that have not fired
    context         \* the context store of src/stores/context.ts and what setupMgmt invoked

vars == <<types, heap, generation, tasks, socket, wantSocket, pendingFrames,
          wire, started, inError, queue, queueTimer, ret, page, route, timers, context>>

(***************************************************************************)
(* Bounds of the model.                                                    *)
(***************************************************************************)
MaxObjs == 3
MaxTasks == 2
MaxGen == 2
MaxFrames == 2
MaxPages == 3
MaxCalls == 3

(***************************************************************************)
(* JavaScript values.                                                      *)
(***************************************************************************)
Undefined == "undefined"
\* the socket field while it is null
Null == [state |-> "null", hasReconnected |-> FALSE]
\* Number.parseInt of a string that holds no number
NaN == -1
\* what Map.get and byId give when there is no entry (no object)
NoObj == 0

SCHEMA == "schema"
NO_WATCH == "NO_WATCH"
NO_SCHEMA == "NO_SCHEMA"

\* a resource payload as the server sends it
Res(t, i, v) == [type |-> t, baseType |-> Undefined, id |-> i, rv |-> v]

SchemaOf(t) == Res(SCHEMA, t, Undefined)

\* Number.parseInt(x || "", 10)
ParseInt(x) == CASE x = "1" -> 1 [] x = "2" -> 2 [] x = "5" -> 5 [] OTHER -> NaN

\* `${n}`
Stringify(n) == CASE n = 1 -> "1" [] n = 2 -> "2" [] n = 5 -> "5" [] OTHER -> "NaN"

\* Math.max(a, b)
MathMax(a, b) == IF a = NaN \/ b = NaN THEN NaN ELSE IF a >= b THEN a ELSE b

\* x++ on a field that holds no number
PostIncrement(x) == IF x \in {Undefined, "NaN"} THEN "NaN" ELSE x

\* lower-cases a type name
normalizeType(type) == CASE type = "Pod" -> "pod" [] OTHER -> type

(***************************************************************************)
(* The store as one record, for the synchronous segments.                  *)
(***************************************************************************)
Store == [types |-> types, heap |-> heap, generation |-> generation,
          tasks |-> tasks, socket |-> socket, pendingFrames |-> pendingFrames,
          wire |-> wire, started |-> started, inError |-> inError,
          out |-> NoObj, val |-> Undefined, async |-> FALSE]

Commit(s) ==
    /\ types' = s.types
    /\ heap' = s.heap
    /\ generation' = s.generation
    /\ tasks' = s.tasks
    /\ socket' = s.socket
    /\ pendingFrames' = s.pendingFrames
    /\ wire' = s.wire
    /\ started' = s.started
    /\ inError' = s.inError

Returned(op, arg, val) == [op |-> op, arg |-> arg, val |-> val]

(***************************************************************************)
(* Fields the store reads but its state initializer never sets.            *)
(***************************************************************************)
\* this.haveAll: read by findAll, assigned by reset only
haveAll == Undefined
\* this.typeStores: read by storeFor and registerStore, never assigned
typeStores == Undefined
\* this.type
storeType == Undefined

(***************************************************************************)
(* The type cache.                                                         *)
(***************************************************************************)
EmptyMap == [k \in {} |-> NoObj]

NewCache == [list |-> <<>>, haveAll |-> FALSE, revision |-> 0, generation |-> 0,
             map |-> EmptyMap]

MapGet(map, k) == IF k \in DOMAIN map THEN map[k] ELSE NoObj

MapSet(map, k, v) == [x \in DOMAIN map \cup {k} |-> IF x = k THEN v ELSE map[x]]

typeRegistered(s, type) == normalizeType(type) \in DOMAIN s.types

registerType(s, type) ==
    IF type \in DOMAIN s.types
    THEN s
    ELSE [s EXCEPT !.types = [k \in DOMAIN s.types \cup {type} |->
                                 IF k = type THEN NewCache ELSE s.types[k]]]

byId(s, type, id) ==
    LET t == normalizeType(type)
    IN  IF t \in DOMAIN s.types THEN MapGet(s.types[t].map, id) ELSE NoObj

\* decorate(data, store): a new instance around the payload
Decorate(s, data) == [s EXCEPT !.heap = Append(s.heap, data), !.out = Len(s.heap) + 1]

\* entry.update(data): the instance takes the payload's fields and stays the same object
Update(s, obj, data) == [s EXCEPT !.heap[obj] = data]

FreeTask(s) == CHOOSE k \in 1..(Cardinality(DOMAIN s.tasks) + 1) : k \notin DOMAIN s.tasks

AddTask(s, t) ==
    LET k == FreeTask(s)
    IN  [s EXCEPT !.tasks = [x \in DOMAIN s.tasks \cup {k} |->
                                IF x = k THEN t ELSE s.tasks[x]],
                  !.out = k, !.async = TRUE]

DropTask(s, k) == [s EXCEPT !.tasks = [x \in DOMAIN s.tasks \ {k} |-> s.tasks[x]]]

Task(op, pc, type, id, data, parent) ==
    [op |-> op, pc |-> pc, type |-> type, id |-> id, data |-> data, parent |-> parent,
     load |-> "all", watch |-> TRUE, rev |-> Undefined]

(***************************************************************************)
(* load, loadMulti, loadAll, remove and the getter all.                    *)
(***************************************************************************)
\* how many instances the suspended calls will still create
Reserved(s) ==
    LET top == Cardinality(DOMAIN s.tasks) + MaxTasks + 1
        n[k \in 0..top] ==
            IF k = 0 THEN 0
            ELSE n[k - 1] + (IF k \in DOMAIN s.tasks /\ s.tasks[k].pc \in {"decorate", "loadAll"}
                             THEN Len(s.tasks[k].data) ELSE 0)
    IN  n[top]

\* how many frames the suspended calls may still send
ReservedFrames(s) ==
    Cardinality({k \in DOMAIN s.tasks : s.tasks[k].op \in {"findAll", "find", "loadSchemas"}
                                         /\ s.tasks[k].watch})

\* whether the store a call leaves is within the model's bounds
Fits(s) ==
    /\ Cardinality(DOMAIN s.tasks) <= MaxTasks
    /\ Len(s.heap) + Reserved(s) <= MaxObjs
    /\ Len(s.wire) + Len(s.pendingFrames) + ReservedFrames(s) <= MaxFrames
    /\ \A k \in DOMAIN s.types : s.types[k].generation <= MaxGen

\* a load that decorates and pushes a new instance even when the id is cached
loadAlwaysDecorates(s, data, existing, parent) ==
    LET type0 == normalizeType(data.type)
        s1 == IF typeRegistered(s, type0) THEN s ELSE registerType(s, type0)
        based == data.baseType # Undefined /\ data.baseType # data.type
        type == IF based THEN normalizeType(data.baseType) ELSE type0
        s2 == IF based /\ ~typeRegistered(s1, type) THEN registerType(s1, type) ELSE s1
        id == IF data.id # Undefined THEN data.id ELSE existing
        s3 == registerType([s2 EXCEPT !.generation = PostIncrement(@)], type)
    IN  IF id = Undefined
        THEN [s2 EXCEPT !.out = NoObj, !.val = Undefined, !.async = FALSE]
        ELSE AddTask(s3, Task("load", "decorate", type, id, <<data>>, parent))

\* a load that leaves a cached entry with the data it had
loadKeepsEntry(s, data, existing, parent) ==
    LET type0 == normalizeType(data.type)
        s1 == IF typeRegistered(s, type0) THEN s ELSE registerType(s, type0)
        based == data.baseType # Undefined /\ data.baseType # data.type
        type == IF based THEN normalizeType(data.baseType) ELSE type0
        s2 == IF based /\ ~typeRegistered(s1, type) THEN registerType(s1, type) ELSE s1
        id == IF data.id # Undefined THEN data.id ELSE existing
        s3 == registerType([s2 EXCEPT !.generation = PostIncrement(@)], type)
        entry == MapGet(s3.types[type].map, id)
    IN  IF id = Undefined
        THEN [s2 EXCEPT !.out = NoObj, !.val = Undefined, !.async = FALSE]
        ELSE IF entry # NoObj
        THEN [s3 EXCEPT !.out = byId(s3, type, id), !.val = "updated", !.async = FALSE]
        ELSE AddTask(s3, Task("load", "decorate", type, id, <<data>>, parent))

\* a load that counts the call before it looks for the id
loadCountsFirst(s, data, existing, parent) ==
    LET type0 == normalizeType(data.type)
        s1 == IF typeRegistered(s, type0) THEN s ELSE registerType(s, type0)
        based == data.baseType # Undefined /\ data.baseType # data.type
        type == IF based THEN normalizeType(data.baseType) ELSE type0
        s2 == IF based /\ ~typeRegistered(s1, type) THEN registerType(s1, type) ELSE s1
        id == IF data.id # Undefined THEN data.id ELSE existing
        s3 == registerType([s2 EXCEPT !.generation = PostIncrement(@)], type)
        entry == MapGet(s3.types[type].map, id)
    IN  IF id = Undefined
        THEN [s3 EXCEPT !.out = NoObj, !.val = Undefined, !.async = FALSE]
        ELSE IF entry # NoObj
        THEN [Update(s3, entry, data) EXCEPT !.out = byId(s3, type, id), !.val = "updated",
                                             !.async = FALSE]
        ELSE AddTask(s3, Task("load", "decorate", type, id, <<data>>, parent))

\* load up to its await: the entry under id is updated in place, or decorate is awaited
load(s, data, existing, parent) ==
    LET type0 == normalizeType(data.type)
        s1 == IF typeRegistered(s, type0) THEN s ELSE registerType(s, type0)
        based == data.baseType # Undefined /\ data.baseType # data.type
        type == IF based THEN normalizeType(data.baseType) ELSE type0
        s2 == IF based /\ ~typeRegistered(s1, type) THEN registerType(s1, type) ELSE s1
        id == IF data.id # Undefined THEN data.id ELSE existing
        s3 == registerType([s2 EXCEPT !.generation = PostIncrement(@)], type)
        entry == MapGet(s3.types[type].map, id)
    IN  IF id = Undefined
        THEN [s2 EXCEPT !.out = NoObj, !.val = Undefined, !.async = FALSE]
        ELSE IF entry # NoObj
        THEN [Update(s3, entry, data) EXCEPT !.out = byId(s3, type, id), !.val = "updated",
                                             !.async = FALSE]
        ELSE AddTask(s3, Task("load", "decorate", type, id, <<data>>, parent))

\* load after decorate has resolved: the new instance goes to the list and the map
loadResume(s, k) ==
    LET t == s.tasks[k]
        s1 == Decorate(s, t.data[1])
        entry == s1.out
        s2 == [s1 EXCEPT !.types[t.type].list = Append(@, entry),
                         !.types[t.type].map = MapSet(@, t.id, entry)]
        s3 == DropTask(s2, k)
    IN  [s3 EXCEPT !.out = byId(s3, t.type, t.id), !.val = "created", !.async = FALSE]

\* loadMulti up to its await: load is called for every entry, in order
RECURSIVE loadMulti(_, _, _)
loadMulti(s, data, parent) ==
    IF data = <<>> THEN s
    ELSE loadMulti(load(s, Head(data), Undefined, parent), Tail(data), parent)

\* addObjects of utils/array: each object not yet in the array is pushed
addObjects(ary, objs) ==
    ary \o SelectSeq(objs, LAMBDA o : \A i \in 1..Len(ary) : ary[i] # o)

\* loadAll up to its await: the cache is emptied, then every decorate is awaited. The
\* suspended call is task k when a findAll awaits this loadAll, a task of its own when
\* k is 0 (data is an array in every call of the model, so the return on a missing data
\* is not taken)
loadAll(s, type, data, k) ==
    LET s1 == registerType(s, type)
        s2 == [s1 EXCEPT !.types[type].list = <<>>,
                         !.types[type].map = EmptyMap,
                         !.types[type].generation = @ + 1]
    IN  IF k = 0
        THEN AddTask(s2, Task("loadAll", "loadAll", type, Undefined, data, 0))
        ELSE [s2 EXCEPT !.tasks[k].pc = "loadAll", !.tasks[k].data = data, !.async = TRUE]

\* loadAll after its await: the proxies go to the list, then to the map under data[i].id
loadAllResume(s, k) ==
    LET t == s.tasks[k]
        n == Len(s.heap)
        m == Len(t.data)
        proxies == [i \in 1..m |-> n + i]
        keys == {t.data[i].id : i \in 1..m}
        last(x) == CHOOSE i \in 1..m : t.data[i].id = x /\ \A j \in (i + 1)..m : t.data[j].id # x
        old == s.types[t.type].map
    IN  [s EXCEPT !.heap = s.heap \o t.data,
                  !.types[t.type].list = addObjects(@, proxies),
                  !.types[t.type].map = [x \in DOMAIN old \cup keys |->
                                            IF x \in keys THEN proxies[last(x)] ELSE old[x]],
                  !.types[t.type].haveAll = TRUE,
                  !.tasks[k].pc = "loaded",
                  !.async = FALSE, !.val = Undefined]

\* this.list and this.map of the store, which remove works on
storeList == Undefined
storeMap == Undefined

\* remove: byId is called with the id alone, and the removal is from this.list and this.map
remove(s, objOrId, isString) ==
    LET obj == IF isString THEN byId(s, objOrId, Undefined) ELSE objOrId
    IN  IF obj # NoObj
        THEN [s EXCEPT !.generation = PostIncrement(@),
                       !.val = IF storeList = Undefined \/ storeMap = Undefined
                               THEN "TypeError" ELSE "true"]
        ELSE [s EXCEPT !.val = "false"]

\* the key registerType makes of the state object that all passes as its type
ObjectObject == "[object Object]"

\* the getter all(type): an unregistered type registers the state object's key, then the
\* read of state.types[type].list throws
all(s, type) ==
    LET t == normalizeType(type)
    IN  IF typeRegistered(s, t)
        THEN [s EXCEPT !.val = "list"]
        ELSE [registerType(s, ObjectObject) EXCEPT !.val = "TypeError"]

(***************************************************************************)
(* Schemas, watch descriptors and the socket.                              *)
(***************************************************************************)
\* whether state.types[SCHEMA] exists; schemaFor throws when it does not
schemasLoaded(s) == SCHEMA \in DOMAIN s.types

\* schemaFor(type) once the schema cache exists: the entry under the normalized type
schemaFor(s, type) == MapGet(s.types[SCHEMA].map, normalizeType(type))

\* the type names of the schema lookups
Lookups == {"Pod", "deployment", "node"}

\* String.length of the names of the schema lookups
Length(str) ==
    CASE str = "apps.deployment" -> 15
      [] str = "x.deployment" -> 12
      [] str = "deployment" -> 10
      [] str \in {"pod", "Pod"} -> 3
      [] OTHER -> 4

\* thisOne.endsWith(`.${type}`)
endsWithDot(thisOne, type) ==
    type = "deployment" /\ thisOne \in {"apps.deployment", "x.deployment"}

\* the getter schemaName(type), read once the schema cache exists: the ids of the schemas
\* whose normalized id is the normalized type or ends with a dot and the type, sorted by
\* length (the sort is stable); the first of them, or the type when there is none
schemaName(s, type) ==
    LET want == normalizeType(type)
        list == s.types[SCHEMA].list
        matches == SelectSeq([i \in 1..Len(list) |-> s.heap[list[i]].id],
                             LAMBDA x : normalizeType(x) = want
                                        \/ endsWithDot(normalizeType(x), want))
        first == CHOOSE i \in 1..Len(matches) :
                     /\ \A j \in 1..Len(matches) : Length(matches[i]) <= Length(matches[j])
                     /\ \A j \in 1..(i - 1) : Length(matches[j]) > Length(matches[i])
    IN  IF matches # <<>> THEN matches[first] ELSE want

\* a schemaFor that throws whatever allowThrow is
schemaForAlwaysThrows(s, type, fuzzy, allowThrow) ==
    IF ~schemasLoaded(s)
    THEN [val |-> "Error", out |-> NoObj, calls |-> 1]
    ELSE [val |-> Undefined, out |-> schemaFor(s, type), calls |-> 1]

\* the getter schemaFor(type, fuzzy, allowThrow): what it throws or returns (val), the
\* schema it returns (out) and how many times it was entered. Without the schema cache
\* it throws or returns null; a fuzzy lookup that finds nothing under the type calls
\* itself once, without fuzzy, for the name schemaName gives
RECURSIVE schemaForGetter(_, _, _, _)
schemaForGetter(s, type, fuzzy, allowThrow) ==
    LET want == normalizeType(type)
    IN  IF ~schemasLoaded(s)
        THEN [val |-> IF allowThrow THEN "Error" ELSE "null", out |-> NoObj, calls |-> 1]
        ELSE IF schemaFor(s, want) = NoObj /\ fuzzy /\ schemaName(s, want) # ""
        THEN LET r == schemaForGetter(s, schemaName(s, want), FALSE, TRUE)
             IN  [r EXCEPT !.calls = @ + 1]
        ELSE [val |-> IF schemaFor(s, want) = NoObj THEN Undefined ELSE "schema",
              out |-> schemaFor(s, want), calls |-> 1]

\* a watch descriptor
Desc(t, ns, i, sel) == [type |-> t, namespace |-> ns, id |-> i, selector |-> sel]

OrEmpty(x) == IF x = Undefined THEN "" ELSE x

\* keyForSubscribe: the composite of type, namespace, id and selector
keyForSubscribe(obj) ==
    <<OrEmpty(obj.type), OrEmpty(obj.namespace), OrEmpty(obj.id), OrEmpty(obj.selector)>>

\* watchesAreEquivalent: normalized type, namespace, id and selector all match
watchesAreEquivalent(a, b) ==
    /\ normalizeType(OrEmpty(a.type)) = normalizeType(OrEmpty(b.type))
    /\ OrEmpty(a.namespace) = OrEmpty(b.namespace)
    /\ OrEmpty(a.id) = OrEmpty(b.id)
    /\ OrEmpty(a.selector) = OrEmpty(b.selector)

canWatch(s, obj) == keyForSubscribe(obj) \notin DOMAIN s.inError

watchStarted(s, obj) == \E i \in 1..Len(s.started) : watchesAreEquivalent(obj, s.started[i])

\* the index in started of the first entry equivalent to obj, 0 when there is none
existingWatchFor(s, obj) ==
    IF watchStarted(s, obj)
    THEN CHOOSE i \in 1..Len(s.started) :
             /\ watchesAreEquivalent(obj, s.started[i])
             /\ \A j \in 1..(i - 1) : ~watchesAreEquivalent(obj, s.started[j])
    ELSE 0

\* nextResourceVersion(type, id): a revision above 0, or null (given here as 0)
nextResourceVersion(s, type, id) ==
    LET existing == IF id # Undefined THEN byId(s, type, id) ELSE NoObj
        first == IF existing # NoObj THEN ParseInt(s.heap[existing].rv) ELSE 0
        list == IF type \in DOMAIN s.types THEN s.types[type].list ELSE <<>>
        over[i \in 0..Len(list)] ==
            IF i = 0 THEN s.types[type].revision
            ELSE MathMax(over[i - 1], ParseInt(s.heap[list[i]].rv))
        revision == IF first = 0 \/ first = NaN
                    THEN (IF type \in DOMAIN s.types THEN over[Len(list)] ELSE 0)
                    ELSE first
    IN  IF revision > 0 THEN revision ELSE 0

\* an outbound frame
Frame(t, rv, ns, stop, i, sel) ==
    [resourceType |-> t, resourceVersion |-> rv, namespace |-> ns, stop |-> stop,
     id |-> i, selector |-> sel]

\* socket.send of utils/socket: true when the socket is connected and took the frame
SocketSend(s, obj) == s.socket.state = "connected"

send(s, obj) ==
    IF s.socket # Null /\ SocketSend(s, obj)
    THEN [s EXCEPT !.wire = Append(@, obj)]
    ELSE [s EXCEPT !.pendingFrames = Append(@, obj)]

sendImmediate(s, obj) ==
    IF s.socket # Null /\ SocketSend(s, obj) THEN [s EXCEPT !.wire = Append(@, obj)] ELSE s

\* a watch that does not look whether the descriptor is started
watchIgnoresStarted(s, params) ==
    LET type == normalizeType(OrEmpty(params.type))
        n == nextResourceVersion(s, type, params.id)
        revision == IF params.revision = Undefined
                    THEN (IF n = 0 THEN Undefined ELSE Stringify(n))
                    ELSE params.revision
    IN  IF ~params.stop /\ ~params.force /\ ~canWatch(s, params)
        THEN s
        ELSE send(s, Frame(type, IF revision = "" THEN Undefined ELSE revision,
                           params.namespace, params.stop, params.id, params.selector))

\* watch(params); params has the descriptor's fields and revision, stop, force
watch(s, params) ==
    LET type == normalizeType(OrEmpty(params.type))
        id == params.id
        revision == IF params.revision = Undefined
                    THEN (LET n == nextResourceVersion(s, type, id)
                          IN  IF n = 0 THEN Undefined ELSE Stringify(n))
                    ELSE params.revision
    IN  IF ~params.stop /\ ~params.force /\ ~canWatch(s, params)
        THEN s
        ELSE IF ~params.stop
                /\ watchStarted(s, Desc(type, params.namespace, id, params.selector))
        THEN s
        ELSE send(s, Frame(type, IF revision = "" THEN Undefined ELSE revision,
                           params.namespace, params.stop, id, params.selector))

\* the parameters of a watch call
Params(d, revision, stop, force) ==
    [type |-> d.type, namespace |-> d.namespace, id |-> d.id, selector |-> d.selector,
     revision |-> revision, stop |-> stop, force |-> force]

\* what delete does to a record of inError
MapDelete(map, k) == [x \in DOMAIN map \ {k} |-> map[x]]

RemoveAt(seq, i) == SubSeq(seq, 1, i - 1) \o SubSeq(seq, i + 1, Len(seq))

\* a setWatchStarted that adds the descriptor whether or not an equivalent one is there
setWatchStartedAlways(s, obj) ==
    [s EXCEPT !.started = Append(@, obj),
              !.inError = MapDelete(@, keyForSubscribe(obj))]

\* a setWatchStarted that leaves the error recorded for the descriptor
setWatchStartedKeepsError(s, obj) ==
    IF existingWatchFor(s, obj) = 0 THEN [s EXCEPT !.started = Append(@, obj)] ELSE s

setWatchStarted(s, obj) ==
    LET s1 == IF existingWatchFor(s, obj) = 0
              THEN [s EXCEPT !.started = Append(@, obj)]
              ELSE s
    IN  [s1 EXCEPT !.inError = MapDelete(@, keyForSubscribe(obj))]

setWatchStopped(s, obj) ==
    LET existing == existingWatchFor(s, obj)
    IN  IF existing # 0 THEN [s EXCEPT !.started = RemoveAt(@, existing)] ELSE s

setInError(s, msg) == [s EXCEPT !.inError = MapSet(@, keyForSubscribe(msg), msg.reason)]

clearInError(s, msg) == [s EXCEPT !.inError = MapDelete(@, keyForSubscribe(msg))]

\* a reconnectWatches that leaves the entries in started before it calls watch
RECURSIVE reconnectWithoutStop(_, _)
reconnectWithoutStop(s, entries) ==
    IF entries = <<>>
    THEN s
    ELSE IF ~schemasLoaded(s)
    THEN [s EXCEPT !.val = "Error"]
    ELSE IF schemaFor(s, Head(entries).type) # NoObj
    THEN reconnectWithoutStop(watch(s, Params(Head(entries), Undefined, FALSE, FALSE)),
                              Tail(entries))
    ELSE reconnectWithoutStop(s, Tail(entries))

\* reconnectWatches over the entries started held when it was called; val is "Error" when
\* schemaFor threw, and the loop ended there
RECURSIVE reconnectWatches(_, _)
reconnectWatches(s, entries) ==
    IF entries = <<>>
    THEN s
    ELSE IF ~schemasLoaded(s)
    THEN [s EXCEPT !.val = "Error"]
    ELSE IF schemaFor(s, Head(entries).type) # NoObj
    THEN reconnectWatches(
             watch(setWatchStopped(s, Head(entries)),
                   Params(Head(entries), Undefined, FALSE, FALSE)),
             Tail(entries))
    ELSE reconnectWatches(s, Tail(entries))

\* the resend of the frames that were buffered while the socket was down
RECURSIVE resend(_, _)
resend(s, frames) ==
    IF frames = <<>> THEN s ELSE resend(sendImmediate(s, Head(frames)), Tail(frames))

\* opened once the flush timer runs: a socket that has reconnected reissues the started
\* watches, then the frames buffered while it was down are sent once; nothing is resent
\* when reconnectWatches threw
opened(s) ==
    LET s1 == IF s.socket.hasReconnected THEN reconnectWatches(s, s.started) ELSE s
    IN  IF s1.val = "Error"
        THEN s1
        ELSE resend([s1 EXCEPT !.pendingFrames = <<>>], s1.pendingFrames)

\* the loop of unsubscribe(false) over the entries started held when it was called: an
\* entry of the type schema is passed over; for any other schemaFor is asked, which
\* throws while no schema is loaded (val is "Error" and the loop ends there); an entry
\* whose type has a schema is taken out of started and a stop frame is sent for it
RECURSIVE stopWatches(_, _)
stopWatches(s, entries) ==
    IF entries = <<>>
    THEN s
    ELSE IF Head(entries).type = SCHEMA
    THEN stopWatches(s, Tail(entries))
    ELSE IF ~schemasLoaded(s)
    THEN [s EXCEPT !.val = "Error"]
    ELSE IF schemaFor(s, Head(entries).type) # NoObj
    THEN stopWatches(
             watch(setWatchStopped(s, Head(entries)),
                   Params(Head(entries), Undefined, TRUE, FALSE)),
             Tail(entries))
    ELSE stopWatches(s, Tail(entries))

\* an unsubscribe that keeps the started watches when it disconnects
unsubscribeKeepsStarted(s, disconnect) ==
    LET s0 == [s EXCEPT !.pendingFrames = <<>>, !.val = Undefined]
    IN  IF s.socket # Null /\ disconnect
        THEN AddTask([s0 EXCEPT !.socket.state = "closing"],
                     Task("unsubscribe", "disconnect", "", Undefined, <<>>, 0))
        ELSE [stopWatches(s0, s0.started) EXCEPT !.async = FALSE]

\* unsubscribe(disconnect) up to its await: the buffer of pending frames is emptied;
\* with a socket and disconnect, started is emptied and the disconnect of the socket
\* awaited (wantSocket is unset by the action); else the started watches are stopped
unsubscribe(s, disconnect) ==
    LET s0 == [s EXCEPT !.pendingFrames = <<>>, !.val = Undefined]
    IN  IF s.socket # Null /\ disconnect
        THEN AddTask([s0 EXCEPT !.started = <<>>, !.socket.state = "closing"],
                     Task("unsubscribe", "disconnect", "", Undefined, <<>>, 0))
        ELSE [stopWatches(s0, s0.started) EXCEPT !.async = FALSE]

\* a message of the server about a descriptor
Msg(d) == [resourceType |-> d.type, namespace |-> d.namespace, id |-> d.id,
           selector |-> d.selector]

\* the descriptor a frame or a message of the server is about
DescOf(m) == Desc(m.resourceType, m.namespace, m.id, m.selector)

\* storeFor(type): the read of typeStores[type] throws, typeStores being undefined
storeFor(type) == IF typeStores = Undefined THEN "TypeError" ELSE typeStores[normalizeType(type)]

\* resyncWatch(params): its first step, storeFor, throws, so that the promise is rejected
\* and neither the request nor the removal of stale entries is reached
resyncWatch(s, params) ==
    IF storeFor(params.resourceType) = "TypeError"
    THEN [s EXCEPT !.val = "TypeError"]
    ELSE s

\* ws.resource.start
wsResourceStart(s, msg) == setWatchStarted(s, DescOf(msg))

\* the errors a resource.error message carries
Errors == {"watch not allowed", "failed to find schema", "too old"}

\* ws.resource.error: the descriptor put in error has the type of the message only
wsResourceError(s, msg, err) ==
    LET typeOnly == Desc(msg.resourceType, Undefined, Undefined, Undefined)
    IN  CASE err = "watch not allowed" ->
                 setInError(s, [type |-> typeOnly.type, namespace |-> typeOnly.namespace,
                                id |-> typeOnly.id, selector |-> typeOnly.selector,
                                reason |-> NO_WATCH])
          [] err = "failed to find schema" ->
                 setInError(s, [type |-> typeOnly.type, namespace |-> typeOnly.namespace,
                                id |-> typeOnly.id, selector |-> typeOnly.selector,
                                reason |-> NO_SCHEMA])
          [] err = "too old" -> resyncWatch(s, msg)
          [] err = Undefined -> [s EXCEPT !.val = "TypeError"]
          [] OTHER -> s

\* the delay of the timer of ws.resource.stop, in milliseconds
RetryDelay == 5000

\* the timer ws.resource.stop sets for a descriptor
RetryTimer(obj) ==
    [op |-> "ws.resource.stop", pc |-> "timer", type |-> obj.type, id |-> obj.id,
     data |-> <<obj>>, parent |-> 0, load |-> "all", watch |-> TRUE, rev |-> Undefined,
     delay |-> RetryDelay]

\* a ws.resource.stop that calls watch at once and sets no timer
wsResourceStopRetriesNow(s, msg) ==
    LET obj == DescOf(msg)
    IN  IF ~schemasLoaded(s)
        THEN [s EXCEPT !.val = "Error"]
        ELSE IF schemaFor(s, msg.resourceType) # NoObj /\ watchStarted(s, obj)
        THEN watch(setWatchStopped(s, obj), Params(obj, Undefined, FALSE, FALSE))
        ELSE s

\* ws.resource.stop: a started watch is taken out of started and a timer set that calls
\* watch again; schemaFor throws while no schema is loaded
wsResourceStop(s, msg) ==
    LET obj == DescOf(msg)
    IN  IF ~schemasLoaded(s)
        THEN [s EXCEPT !.val = "Error"]
        ELSE IF schemaFor(s, msg.resourceType) # NoObj /\ watchStarted(s, obj)
        THEN AddTask(setWatchStopped(s, obj), RetryTimer(obj))
        ELSE s

(***************************************************************************)
(* The change events of the socket, the queue and its flush.               *)
(***************************************************************************)
\* this.schemas: read by queueChange, assigned by resetWS only
schemas == Undefined

\* the data of a message that carries none
NoData == Res(Undefined, Undefined, Undefined)

\* a resource.create, resource.change or resource.remove message of the server
Event(name, data, revision) ==
    [name |-> name, resourceType |-> data.type, data |-> data, revision |-> revision]

\* queueChange(msg, load = isLoad, event): what it returns or throws and what it pushes to the
\* queue. The read of this.schemas[type] throws for a schema, schemas being undefined,
\* and storeFor throws for every other type; past storeFor the revision that is raised
\* is the one of the type's store, ts.revision, not the one of the cache in state.types
queueChange(msg, isLoad, event) ==
    LET data == msg.data
        type == normalizeType(data.type)
    IN  IF data = NoData
        THEN [val |-> Undefined, push |-> <<>>]
        ELSE IF type = "schema"
        THEN [val |-> IF schemas = Undefined THEN "TypeError" ELSE Undefined, push |-> <<>>]
        ELSE IF storeFor(type) = "TypeError"
        THEN [val |-> "TypeError", push |-> <<>>]
        ELSE IF storeFor(type) = Undefined
        THEN [val |-> Undefined, push |-> <<>>]
        ELSE [val |-> Undefined,
              push |-> <<IF isLoad
                         THEN [action |-> "load", type |-> type, id |-> Undefined,
                               body |-> data, event |-> event]
                         ELSE [action |-> "remove", type |-> data.type, id |-> data.id,
                               body |-> NoData, event |-> Undefined]>>]

\* flush(): nothing on an empty queue; else the queue is replaced by an empty one and
\* the actions taken are gone through, where storeFor throws on the first
flush(q) ==
    IF q = <<>>
    THEN [val |-> Undefined, queue |-> q]
    ELSE [val |-> IF storeFor(Head(q).type) = "TypeError" THEN "TypeError" ELSE Undefined,
          queue |-> <<>>]

\* the names for which the store has an action ws.<name>
Known == {"ping", "resource.start", "resource.error", "resource.stop", "resource.create",
          "resource.change", "resource.remove"}

\* the names of the messages of the model: the known ones, one that no action has and
\* that holds no dot, and one that no action has and that holds a dot
Names == Known \cup {"cluster", "resource.patch"}

\* `${name}`.includes(".")
includesDot(name) == name \in {"resource.start", "resource.error", "resource.stop",
                               "resource.create", "resource.change", "resource.remove",
                               "resource.patch"}

\* a message of the server: its name, the watch it is about, its data and its error
Inbound(name, d, data, err) ==
    [name |-> name, resourceType |-> d.type, namespace |-> d.namespace, id |-> d.id,
     selector |-> d.selector, data |-> data, error |-> err]

\* what a dispatch that calls no action leaves
Dropped(s, name) == [s |-> s, push |-> <<>>, val |-> Undefined, name |-> name, called |-> Undefined]

\* the handler of EVENT_MESSAGE: the action ws.<name> is called when there is one; else
\* a name without a dot is replaced by resource.change in the message, and no action is
\* called for the message; else the name is logged
onMessage(s, msg) ==
    IF msg.name \in Known
    THEN CASE msg.name = "ping" ->
                  [Dropped(s, msg.name) EXCEPT !.called = "ws.ping"]
           [] msg.name = "resource.start" ->
                  [Dropped(wsResourceStart(s, msg), msg.name) EXCEPT !.called = "ws.resource.start"]
           [] msg.name = "resource.error" ->
                  LET r == wsResourceError(s, msg, msg.error)
                  IN  [s |-> r, push |-> <<>>, val |-> r.val, name |-> msg.name,
                       called |-> "ws.resource.error"]
           [] msg.name = "resource.stop" ->
                  LET r == wsResourceStop(s, msg)
                  IN  [s |-> r, push |-> <<>>, val |-> r.val, name |-> msg.name,
                       called |-> "ws.resource.stop"]
           [] msg.name = "resource.create" ->
                  LET r == queueChange(msg, TRUE, "create")
                  IN  [s |-> s, push |-> r.push, val |-> r.val, name |-> msg.name,
                       called |-> "ws.resource.create"]
           [] msg.name = "resource.change" ->
                  LET r == queueChange(msg, TRUE, "change")
                  IN  [s |-> s, push |-> r.push, val |-> r.val, name |-> msg.name,
                       called |-> "ws.resource.change"]
           [] msg.name = "resource.remove" ->
                  LET r == queueChange(msg, FALSE, "remove")
                  IN  [s |-> s, push |-> r.push, val |-> r.val, name |-> msg.name,
                       called |-> "ws.resource.remove"]
    ELSE IF ~includesDot(msg.name)
    THEN Dropped(s, "resource.change")
    ELSE Dropped(s, msg.name)

\* the handles setTimeout returns
Handles == {"t1", "t2", "t3"}

\* setTimeout: a handle that no pending timer has and that queueTimer does not hold
setTimeout(ts, qt) == CHOOSE h \in Handles : h \notin ts /\ h # qt

\* a clearTimeout that cancels nothing
clearTimeoutLate(ts, h) == ts

\* clearTimeout(h): the timer of the handle, when it is pending, is cancelled
clearTimeout(ts, h) == ts \ {h}

\* flushQueue, called by opened and by its own timer: flush when the queue has entries,
\* then the timer is set again and its handle kept in queueTimer; when flush throws the
\* timer is not set and the handle that has fired stays in queueTimer. qt and ts are
\* queueTimer and the pending timers
flushQueue(q, qt, ts) ==
    LET r == IF q # <<>> THEN flush(q) ELSE [val |-> Undefined, queue |-> q]
        h == setTimeout(ts, qt)
    IN  IF r.val = "TypeError"
        THEN [val |-> r.val, queue |-> r.queue, queueTimer |-> qt, timers |-> ts]
        ELSE [val |-> r.val, queue |-> r.queue, queueTimer |-> h, timers |-> ts \cup {h}]

\* opened, its first part: flushQueue is defined and called unless queueTimer is set
startFlush(q, qt, ts) ==
    IF qt = Undefined
    THEN flushQueue(q, qt, ts)
    ELSE [val |-> Undefined, queue |-> q, queueTimer |-> qt, timers |-> ts]

\* closed and error that leave the timer as it is
closedKeepsTimer(qt, ts) == [queueTimer |-> qt, timers |-> ts]

\* closed and error: the timer in queueTimer is cleared and queueTimer unset
closed(qt, ts) == [queueTimer |-> Undefined, timers |-> clearTimeout(ts, qt)]

\* whether setTimeout has a handle left to give
HandleLeft == Handles \ (timers \cup {queueTimer}) # {}

(***************************************************************************)
(* The context store of src/stores/context.ts.                             *)
(***************************************************************************)
\* useMgmt, imported from stores/steve, which exports useManagementStore only
useMgmt == Undefined

\* what a build makes of the import of a name the module does not export: the binding is
\* undefined, or the module of the context store does not link
Builds == {"unbound", "SyntaxError"}

\* the context store after construction, with the calls of setupMgmt and the calls it
\* has made on the management store counted
NewContext ==
    [mgmtSetup |-> FALSE, build |-> Undefined, val |-> Undefined, calls |-> 0,
     configure |-> 0, subscribe |-> 0, loadSchemas |-> 0]

\* a setupMgmt that sets mgmtSetup only once useMgmt() has returned, so that a call that
\* fails there leaves it unset
setupMgmtSetsLate(c, build) ==
    LET c1 == [c EXCEPT !.calls = @ + 1, !.build = build]
    IN  IF build = "SyntaxError"
        THEN [c1 EXCEPT !.val = "SyntaxError"]
        ELSE IF c.mgmtSetup
        THEN [c EXCEPT !.calls = @ + 1, !.val = "returned"]
        ELSE IF useMgmt = Undefined
        THEN [c1 EXCEPT !.val = "TypeError"]
        ELSE [c1 EXCEPT !.mgmtSetup = TRUE, !.configure = @ + 1, !.subscribe = @ + 1,
                        !.loadSchemas = @ + 1, !.val = "awaiting"]

\* setupMgmt up to its first await: nothing when mgmtSetup is set; else mgmtSetup is set
\* and useMgmt() called, which throws, useMgmt being undefined, before configure,
\* subscribe and loadSchemas are reached. In a build where the module does not link no
\* call gets into the function
setupMgmt(c, build) ==
    LET c1 == [c EXCEPT !.calls = @ + 1, !.build = build, !.mgmtSetup = TRUE]
    IN  IF build = "SyntaxError"
        THEN [c EXCEPT !.calls = @ + 1, !.build = build, !.val = "SyntaxError"]
        ELSE IF c.mgmtSetup
        THEN [c EXCEPT !.calls = @ + 1, !.val = "returned"]
        ELSE IF useMgmt = Undefined
        THEN [c1 EXCEPT !.val = "TypeError"]
        ELSE [c1 EXCEPT !.configure = @ + 1, !.subscribe = @ + 1, !.loadSchemas = @ + 1,
                        !.val = "awaiting"]

(***************************************************************************)
(* List calls on a paged collection: apiList of server/utils/api and        *)
(* request of the store.                                                   *)
(***************************************************************************)
\* the ids the collections of the server are made of
Items == <<"a", "b", "c", "d", "e", "f", "g", "h", "i", "j">>

\* the pages of a collection whose n-th page has sizes[n] items
PagesOf(sizes) ==
    LET before[n \in 0..Len(sizes)] == IF n = 0 THEN 0 ELSE before[n - 1] + sizes[n]
    IN  [n \in 1..Len(sizes) |-> SubSeq(Items, before[n - 1] + 1, before[n])]

\* the paged collections: up to MaxPages pages of one or two items
Pagings == {PagesOf(sizes) : sizes \in UNION {[1..n -> {1, 2}] : n \in 1..MaxPages}}

Last(seq) == seq[Len(seq)]

\* the body the server sends for a cursor: the page after it, has_more while pages follow
PageAfter(pages, after) ==
    LET n == IF after = Undefined
             THEN 1
             ELSE 1 + (CHOOSE i \in 1..Len(pages) : Last(pages[i]) = after)
    IN  [object |-> "list", type |-> Undefined, data |-> pages[n],
         has_more |-> n < Len(pages), last_id |-> Last(pages[n])]

\* a body that is no list and has no data: what apiFetch makes of a text that is no JSON
ErrorBody == [object |-> Undefined, type |-> "error", data |-> <<>>, has_more |-> FALSE,
              last_id |-> Undefined]

\* no list call under way
IdlePage == [pc |-> "idle", call |-> "", pages |-> <<>>, asked |-> <<>>, served |-> <<>>,
             data |-> <<>>, val |-> ""]

\* apiList(to) up to its first await of apiFetch; asked has the cursor of every fetch
apiList(pages) ==
    [pc |-> "fetch", call |-> "apiList", pages |-> pages, asked |-> <<Undefined>>,
     served |-> <<>>, data |-> <<>>, val |-> ""]

\* apiList when apiFetch has resolved with res: the first body gives the array, a later
\* one is pushed to it, which throws when it has no data; a list with has_more is followed
\* with after=last_id
apiListResume(p, res) ==
    LET first == Len(p.asked) = 1
        p1 == [p EXCEPT !.served = Append(@, res)]
    IN  IF ~first /\ res.type = "error"
        THEN [p1 EXCEPT !.pc = "done", !.val = "TypeError"]
        ELSE LET p2 == [p1 EXCEPT !.data = @ \o res.data]
             IN  IF res.object = "list" /\ res.has_more
                 THEN [p2 EXCEPT !.asked = Append(@, res.last_id)]
                 ELSE [p2 EXCEPT !.pc = "done",
                                 !.val = IF first /\ res.type = "error"
                                         THEN "undefined" ELSE "array"]

\* request(opt) of the store up to its await of $fetch
request(pages) ==
    [pc |-> "fetch", call |-> "request", pages |-> pages, asked |-> <<Undefined>>,
     served |-> <<>>, data |-> <<>>, val |-> ""]

\* request when $fetch has resolved with res: the body is returned as it came, whatever
\* opt.depaginate and the body's has_more say
requestResume(p, res) ==
    [p EXCEPT !.pc = "done", !.served = Append(@, res), !.data = res.data, !.val = "object"]

(***************************************************************************)
(* findAll.                                                                *)
(***************************************************************************)
\* the options of findAll the model draws: force, load and watch
Opt(f, l, w) == [force |-> f, load |-> l, watch |-> w]

LoadModes == {Undefined, "all", "multi", "none"}

\* whether urlFor(type) throws: schemas not loaded, or no schema for the type (every
\* schema payload of the model carries links.collection)
urlForThrows(s, type) ==
    /\ normalizeType(type) # SCHEMA
    /\ \/ ~schemasLoaded(s)
       \/ schemaFor(s, normalizeType(type)) = NoObj

\* findAll up to its await of request
findAll(s, type, opt) ==
    IF opt.force # TRUE /\ haveAll \notin {Undefined, FALSE}
    THEN [s EXCEPT !.val = "getter all", !.async = FALSE]
    ELSE IF urlForThrows(s, type)
    THEN [s EXCEPT !.val = "Error", !.async = FALSE]
    ELSE AddTask(s, [Task("findAll", "request", type, Undefined, <<>>, 0) EXCEPT
                         !.load = IF opt.load = Undefined THEN "all"
                                  ELSE IF opt.load \in {"false", "none"} THEN "none"
                                  ELSE opt.load,
                         !.watch = opt.watch])

\* whether a call still waits for a load or loadAll it awaits
Awaiting(s, k) == \E c \in DOMAIN s.tasks : s.tasks[c].parent = k

\* findAll after its load: the watch of this.type, then the return of all(type)
findAllResume(s, k, watchable) ==
    LET t == s.tasks[k]
        s1 == IF t.watch /\ watchable
              THEN watch(s, Params(Desc(storeType, Undefined, Undefined, Undefined),
                                   t.rev, FALSE, FALSE))
              ELSE s
    IN  [all(DropTask(s1, k), t.type) EXCEPT !.async = FALSE, !.out = NoObj]

\* a findAll that replaces the cache in the mode multi too
findAllLoadReplaces(s, k, res, watchable) ==
    LET t == s.tasks[k]
        s0 == [s EXCEPT !.tasks[k].pc = "load", !.tasks[k].rev = res.revision,
                        !.tasks[k].data = res.data]
        s1 == loadAll(s0, t.type, res.data, k)
    IN  IF t.load = "none"
        THEN [DropTask(s, k) EXCEPT !.val = "decorated", !.async = FALSE, !.out = NoObj]
        ELSE [s1 EXCEPT !.async = TRUE]

\* a findAll that merges the response into the cache in the mode none too
findAllLoadCaches(s, k, res, watchable) ==
    LET t == s.tasks[k]
        s0 == [s EXCEPT !.tasks[k].pc = "load", !.tasks[k].rev = res.revision,
                        !.tasks[k].data = res.data]
        s1 == IF t.load \in {"multi", "none"}
              THEN loadMulti(s0, res.data, k)
              ELSE loadAll(s0, t.type, res.data, k)
    IN  IF t.load \notin {"multi", "none"} \/ Awaiting(s1, k)
        THEN [s1 EXCEPT !.async = TRUE]
        ELSE findAllResume(s1, k, watchable)

\* findAll when request has resolved with res = {data, revision}
findAllLoad(s, k, res, watchable) ==
    LET t == s.tasks[k]
        s0 == [s EXCEPT !.tasks[k].pc = "load", !.tasks[k].rev = res.revision,
                        !.tasks[k].data = res.data]
        s1 == IF t.load = "multi"
              THEN loadMulti(s0, res.data, k)
              ELSE loadAll(s0, t.type, res.data, k)
    IN  IF t.load = "none"
        THEN [DropTask(s, k) EXCEPT !.val = "decorated", !.async = FALSE, !.out = NoObj]
        ELSE IF t.load # "multi" \/ Awaiting(s1, k)
        THEN [s1 EXCEPT !.async = TRUE]
        ELSE findAllResume(s1, k, watchable)

(***************************************************************************)
(* find.                                                                   *)
(***************************************************************************)
\* a find that asks the server whatever the cache has
findAlwaysFetches(s, type, id, opt) ==
    IF urlForThrows(s, type)
    THEN [s EXCEPT !.val = "Error", !.async = FALSE]
    ELSE AddTask(s, [Task("find", "request", type, id, <<>>, 0) EXCEPT !.watch = opt.watch])

\* find up to its await of request: the cached entry is returned unless force is set
find(s, type, id, opt) ==
    IF opt.force # TRUE /\ byId(s, type, id) # NoObj
    THEN [s EXCEPT !.out = byId(s, type, id), !.val = "entry", !.async = FALSE]
    ELSE IF urlForThrows(s, type)
    THEN [s EXCEPT !.val = "Error", !.async = FALSE]
    ELSE AddTask(s, [Task("find", "request", type, id, <<>>, 0) EXCEPT !.watch = opt.watch])

\* id.indexOf("/") > 0: the id of a namespaced resource is split for the watch
SplitId(id) ==
    IF id = "ns/a" THEN [namespace |-> "ns", id |-> "a"] ELSE [namespace |-> Undefined, id |-> id]

\* find after its load: the watch of the type and id at the resource's version, then the
\* return of byId(type, res.id || id)
findResume(s, k, watchable) ==
    LET t == s.tasks[k]
        res == t.data[1]
        scope == SplitId(t.id)
        s1 == IF t.watch /\ watchable
              THEN watch(s, Params(Desc(t.type, scope.namespace, scope.id, Undefined),
                                   res.rv, FALSE, FALSE))
              ELSE s
        out == byId(s1, t.type, IF res.id # Undefined THEN res.id ELSE t.id)
    IN  [DropTask(s1, k) EXCEPT !.out = out, !.async = FALSE,
                                !.val = IF out = NoObj THEN Undefined ELSE "entry"]

\* find when request has resolved with the resource res
findLoad(s, k, res, watchable) ==
    LET s0 == [s EXCEPT !.tasks[k].pc = "load", !.tasks[k].data = <<res>>]
        s1 == load(s0, res, Undefined, k)
    IN  IF Awaiting(s1, k)
        THEN [s1 EXCEPT !.async = TRUE]
        ELSE findResume(s1, k, watchable)

\* the call that awaited a promise goes on when nothing it awaits is left
Resume(s, parent, watchable) ==
    IF parent = 0 \/ Awaiting(s, parent)
    THEN s
    ELSE IF s.tasks[parent].op = "find"
    THEN findResume(s, parent, watchable)
    ELSE findAllResume(s, parent, watchable)

(***************************************************************************)
(* The modelfiles route of src/server/routes/v1/modelfiles/index.ts.       *)
(* A string is a sequence of characters.                                   *)
(***************************************************************************)
\* a string field or parameter that is not there (undefined)
NoString == <<"undefined">>

\* the characters of the model's strings with their UTF-16 code units
CodeUnit(c) ==
    CASE c = "(" -> 40 [] c = "." -> 46 [] c = "1" -> 49 [] c = "2" -> 50 [] c = "3" -> 51
      [] c = "G" -> 71 [] c = "M" -> 77 [] c = "a" -> 97 [] c = "g" -> 103
      [] c = "m" -> 109 [] OTHER -> 120

\* the case folding of the flag 'i'
Lower(c) == CASE c = "G" -> "g" [] c = "M" -> "m" [] OTHER -> c

\* whether new RegExp(q, 'i') throws a SyntaxError: an unclosed group
InvalidPattern(q) == \E j \in 1..Len(q) : q[j] = "("

\* whether the pattern q is found in the string x: a dot stands for any character, every
\* other character for itself in either case
Found(x, q) ==
    \E i \in 0..(Len(x) - Len(q)) :
        \A j \in 1..Len(q) : q[j] = "." \/ Lower(q[j]) = Lower(x[i + j])

\* x.search(new RegExp(q, 'i')) !== -1: the constructor throws on an invalid pattern, the
\* call of search on a field that is not there throws a TypeError
search(x, q) ==
    IF InvalidPattern(q) THEN "SyntaxError"
    ELSE IF x = NoString THEN "TypeError"
    ELSE IF Found(x, q) THEN "true" ELSE "false"

\* a || b where a and b are the outcomes of two search calls: b is not evaluated when a
\* is true or has thrown
OrElse(a, b) == IF a = "false" THEN b ELSE a

\* the callback of the first filter
matchesQ(mf, q) ==
    IF q \in {NoString, <<>>} THEN "true"
    ELSE OrElse(search(mf.id, q),
         OrElse(search(mf.status.model, q),
         OrElse(search(mf.status.modelID, q), search(mf.status.byteSize, q))))

\* ary.includes(x)
includes(ary, x) == \E i \in 1..Len(ary) : ary[i] = x

\* the callbacks of the filters by ids, models and modelIds, which do not throw; a
\* parameter that is not there is the empty list
matchesLists(mf, query) ==
    /\ (query.ids = <<>> \/ includes(query.ids, mf.id))
    /\ (query.models = <<>> \/ includes(query.models, mf.status.model))
    /\ (query.modelIds = <<>> \/ includes(query.modelIds, mf.status.modelID))

\* a < b on two strings: the first code unit that differs decides, a prefix is less
Less(a, b) ==
    \E i \in 1..(Len(b)) :
        /\ \A j \in 1..(i - 1) : j <= Len(a) /\ a[j] = b[j]
        /\ (i > Len(a) \/ (i <= Len(a) /\ CodeUnit(a[i]) < CodeUnit(b[i])))

\* a[sort]: the key 'id' reads the id, a key with a dot names no property of the record
SortValue(mf, sort) == IF sort = "id" THEN mf.id ELSE NoString

\* the comparator of the sort; undefined is neither less nor greater than undefined
compare(a, b, sort, order) ==
    IF sort = Undefined THEN 0
    ELSE LET aValue == SortValue(a, sort)
             bValue == SortValue(b, sort)
         IN  IF aValue = NoString \/ bValue = NoString THEN 0
             ELSE IF Less(aValue, bValue) THEN (IF order = "asc" THEN -1 ELSE 1)
             ELSE IF Less(bValue, aValue) THEN (IF order = "asc" THEN 1 ELSE -1)
             ELSE 0

\* Array.prototype.sort, which is stable: x goes behind the last entry that is not
\* greater than it
RECURSIVE sortBy(_, _, _)
sortBy(ary, sort, order) ==
    IF ary = <<>> THEN <<>>
    ELSE LET done == sortBy(SubSeq(ary, 1, Len(ary) - 1), sort, order)
             x == ary[Len(ary)]
             n == Cardinality({i \in 1..Len(done) :
                                  \E j \in i..Len(done) : compare(done[j], x, sort, order) <= 0})
         IN  SubSeq(done, 1, n) \o <<x>> \o SubSeq(done, n + 1, Len(done))

\* a request without parameters
NoQuery == [q |-> NoString, ids |-> <<>>, models |-> <<>>, modelIds |-> <<>>,
            sort |-> Undefined, order |-> Undefined]

\* no request in the route
IdleRoute == [pc |-> "idle", query |-> NoQuery, records |-> <<>>, out |-> <<>>, val |-> ""]

\* the handler up to its await of apiList
modelfilesRoute(query) == [IdleRoute EXCEPT !.pc = "apiList", !.query = query]

\* the handler once apiList has resolved with modelfiles: the first filter throws what
\* its callback throws on the first record it throws on
modelfilesResume(r, modelfiles) ==
    LET q == r.query.q
        thrown == {i \in 1..Len(modelfiles) :
                      matchesQ(modelfiles[i], q) \in {"SyntaxError", "TypeError"}}
        first == CHOOSE i \in thrown : \A j \in thrown : i <= j
        kept == SelectSeq(modelfiles,
                          LAMBDA mf : matchesQ(mf, q) = "true" /\ matchesLists(mf, r.query))
    IN  IF thrown # {}
        THEN [r EXCEPT !.pc = "done", !.records = modelfiles,
                       !.val = matchesQ(modelfiles[first], q)]
        ELSE [r EXCEPT !.pc = "done", !.records = modelfiles,
                       !.out = sortBy(kept, r.query.sort, r.query.order), !.val = "array"]

(***************************************************************************)
(* What the model draws its inputs from.                                   *)
(***************************************************************************)
IdSeq == <<"a", "b", "c">>

\* the pods with the ids of S, in id order, all at version v
PodSeq(S, v) ==
    LET ids == SelectSeq(IdSeq, LAMBDA i : i \in S)
    IN  [n \in 1..Len(ids) |-> Res("pod", ids[n], v)]

\* the payloads of a load call: pods, a payload without id, one with a baseType
LoadData ==
    {Res("pod", "a", "1"), Res("pod", "a", "2"), Res("pod", "b", "1"),
     Res("pod", Undefined, "1"), [Res("vm", "b", "2") EXCEPT !.baseType = "pod"]}

\* the data of a loadMulti call: distinct ids, and the same payload twice
MultiData == {PodSeq({"a", "b"}, "1"), <<Res("pod", "a", "1"), Res("pod", "a", "1")>>}

\* the data of a loadAll call
AllData == {<<>>, PodSeq({"a"}, "2"), PodSeq({"a", "b"}, "1")}

\* the collections request resolves with
Collections ==
    {[data |-> d, revision |-> "5"] : d \in {<<>>, PodSeq({"a"}, "1"), PodSeq({"a", "b"}, "2")}}

TypeNames == {"pod", "node"}

Init ==
    /\ types = [k \in {} |-> NewCache]
    /\ heap = <<>>
    /\ generation = Undefined
    /\ tasks = [k \in {} |-> Task("", "", "", Undefined, <<>>, 0)]
    /\ socket = Null
    /\ wantSocket = FALSE
    /\ pendingFrames = <<>>
    /\ wire = <<>>
    /\ started = <<>>
    /\ inError = [k \in {} |-> ""]
    /\ queue = <<>>
    /\ queueTimer = Undefined
    /\ ret = Returned("", "", "")
    /\ page = IdlePage
    /\ route = IdleRoute
    /\ timers = {}
    /\ context = NewContext

OtherThanStore == <<wantSocket, queue, queueTimer, page, route, timers, context>>

(***************************************************************************)
(* The calls on the cache and the steps that resume them.                  *)
(***************************************************************************)
Load(data, existing) ==
    LET r == load(Store, data, existing, 0)
    IN  /\ Fits(r)
        /\ Commit(r)
        /\ ret' = IF r.async THEN ret
                  ELSE Returned("load", OrEmpty(data.id), OrEmpty(r.val))
        /\ UNCHANGED OtherThanStore

\* loadMulti(data): its loads run up to their awaits; loadMulti itself only awaits them
LoadMulti(data) ==
    LET r == loadMulti(Store, data, 0)
    IN  /\ Fits(r)
        /\ Commit(r)
        /\ ret' = Returned("loadMulti", "", IF Len(r.heap) + Reserved(r) > Len(heap) + Reserved(Store)
                                            THEN "pending" ELSE "")
        /\ UNCHANGED OtherThanStore

LoadAll(type, data) ==
    LET r == loadAll(Store, type, data, 0)
    IN  /\ Fits(r)
        /\ Commit(r)
        /\ ret' = ret
        /\ UNCHANGED OtherThanStore

\* what the call that went on in this step returned, if one returned
AfterResume(r, parent) ==
    IF parent = 0 \/ parent \in DOMAIN r.tasks
    THEN ret
    ELSE Returned(tasks[parent].op, tasks[parent].type, OrEmpty(r.val))

\* decorate resolves in a load
LoadDone(k, watchable) ==
    /\ k \in DOMAIN tasks
    /\ tasks[k].op = "load"
    /\ LET r0 == loadResume(Store, k)
           parent == tasks[k].parent
           r == Resume(r0, parent, watchable)
       IN  /\ Commit(r)
           /\ ret' = IF parent = 0
                     THEN Returned("load", tasks[k].id, "created")
                     ELSE AfterResume(r, parent)
    /\ UNCHANGED OtherThanStore

\* every decorate of a loadAll has resolved; the findAll that awaited it goes on
LoadAllDone(k, watchable) ==
    /\ k \in DOMAIN tasks
    /\ tasks[k].pc = "loadAll"
    /\ LET r0 == loadAllResume(Store, k)
           r == IF tasks[k].op = "findAll"
                THEN findAllResume(r0, k, watchable)
                ELSE DropTask(r0, k)
       IN  /\ Commit(r)
           /\ ret' = Returned(tasks[k].op, tasks[k].type, OrEmpty(r.val))
    /\ UNCHANGED OtherThanStore

\* remove(id)
RemoveId(id) ==
    LET r == remove(Store, id, TRUE)
    IN  /\ Commit(r)
        /\ ret' = Returned("remove", id, r.val)
        /\ UNCHANGED OtherThanStore

\* remove(resource), the resource being an instance the store handed out
RemoveObj(obj) ==
    /\ obj \in 1..Len(heap)
    /\ LET r == remove(Store, obj, FALSE)
       IN  /\ Commit(r)
           /\ ret' = Returned("remove", OrEmpty(heap[obj].id), r.val)
    /\ UNCHANGED OtherThanStore

\* the getter all(type)
All(type) ==
    LET r == all(Store, type)
    IN  /\ Commit(r)
        /\ ret' = Returned("all", type, r.val)
        /\ UNCHANGED OtherThanStore

FindAll(type, opt) ==
    LET r == findAll(Store, type, opt)
    IN  /\ Fits(r)
        /\ Commit(r)
        /\ ret' = IF r.async THEN ret ELSE Returned("findAll", type, r.val)
        /\ UNCHANGED OtherThanStore

\* request resolves in a findAll
FindAllResponse(k, res, watchable) ==
    /\ k \in DOMAIN tasks
    /\ tasks[k].op = "findAll"
    /\ tasks[k].pc = "request"
    /\ LET r == findAllLoad(Store, k, res, watchable)
       IN  /\ Fits(r)
           /\ Commit(r)
           /\ ret' = AfterResume(r, k)
    /\ UNCHANGED OtherThanStore

\* request fails in a findAll: the catch gives the caller the rejection
FindAllFail(k) ==
    /\ k \in DOMAIN tasks
    /\ tasks[k].op = "findAll"
    /\ tasks[k].pc = "request"
    /\ Commit(DropTask(Store, k))
    /\ ret' = Returned("findAll", tasks[k].type, "Error")
    /\ UNCHANGED OtherThanStore

Find(type, id, opt) ==
    LET r == find(Store, type, id, opt)
    IN  /\ Fits(r)
        /\ Commit(r)
        /\ ret' = IF r.async THEN ret ELSE Returned("find", type, OrEmpty(r.val))
        /\ UNCHANGED OtherThanStore

\* request resolves in a find
FindResponse(k, res, watchable) ==
    /\ k \in DOMAIN tasks
    /\ tasks[k].op = "find"
    /\ tasks[k].pc = "request"
    /\ LET r == findLoad(Store, k, res, watchable)
       IN  /\ Fits(r)
           /\ Commit(r)
           /\ ret' = AfterResume(r, k)
    /\ UNCHANGED OtherThanStore

\* a find that resolves with nothing when its request has failed
FindFailSwallowed(k) ==
    /\ k \in DOMAIN tasks
    /\ tasks[k].op = "find"
    /\ tasks[k].pc = "request"
    /\ Commit(DropTask(Store, k))
    /\ ret' = Returned("find", tasks[k].type, "")
    /\ UNCHANGED OtherThanStore

\* request fails in a find: the await throws and the caller gets the rejection
FindFail(k) ==
    /\ k \in DOMAIN tasks
    /\ tasks[k].op = "find"
    /\ tasks[k].pc = "request"
    /\ Commit(DropTask(Store, k))
    /\ ret' = Returned("find", tasks[k].type, "Error")
    /\ UNCHANGED OtherThanStore

NextLoad ==
    \/ \E d \in LoadData : Load(d, Undefined)
    \/ \E d \in MultiData : LoadMulti(d)
    \/ \E d \in AllData : LoadAll("pod", d)
    \/ \E k \in DOMAIN tasks : LoadDone(k, FALSE)
    \/ \E k \in DOMAIN tasks : LoadAllDone(k, FALSE)

SpecLoad == Init /\ [][NextLoad]_vars

\* remove, by id and by resource, on the caches that load and loadAll fill
NextRemove ==
    \/ \E d \in LoadData : Load(d, Undefined)
    \/ \E d \in AllData : LoadAll("pod", d)
    \/ \E k \in DOMAIN tasks : LoadDone(k, FALSE)
    \/ \E k \in DOMAIN tasks : LoadAllDone(k, FALSE)
    \/ \E i \in {"a", "b", "pod"} : RemoveId(i)
    \/ \E o \in 1..Len(heap) : RemoveObj(o)

SpecRemove == Init /\ [][NextRemove]_vars

NextFind ==
    \/ Load(SchemaOf("pod"), Undefined)
    \/ \E k \in DOMAIN tasks, w \in BOOLEAN : LoadDone(k, w)
    \/ \E k \in DOMAIN tasks, w \in BOOLEAN : LoadAllDone(k, w)
    \/ \E t \in TypeNames, f \in BOOLEAN, l \in LoadModes, w \in BOOLEAN :
           FindAll(t, Opt(f, l, w))
    \/ \E k \in DOMAIN tasks, c \in Collections, w \in BOOLEAN : FindAllResponse(k, c, w)
    \/ \E k \in DOMAIN tasks : FindAllFail(k)
    \/ \E t \in TypeNames : All(t)

SpecFind == Init /\ [][NextFind]_vars

\* schemaFor(type, fuzzy, allowThrow) is read
SchemaFor(type, fuzzy, allowThrow) ==
    /\ LET r == schemaForGetter(Store, type, fuzzy, allowThrow)
       IN  ret' = [op |-> "schemaFor", arg |-> type, val |-> r.val, fuzzy |-> fuzzy,
                   allowThrow |-> allowThrow, out |-> r.out, calls |-> r.calls]
    /\ UNCHANGED <<types, heap, generation, tasks, socket, wantSocket, pendingFrames, wire,
                   started, inError, queue, queueTimer, page, route, timers, context>>

\* the ids of the schemas that are loaded
SchemaIds == {"pod", "apps.deployment", "x.deployment"}

\* lookups of schemas before, while and after schemas are loaded
NextSchema ==
    \/ \E i \in SchemaIds : Load(SchemaOf(i), Undefined)
    \/ \E k \in DOMAIN tasks : LoadDone(k, FALSE)
    \/ \E type \in Lookups, fuzzy \in BOOLEAN, allowThrow \in BOOLEAN :
           SchemaFor(type, fuzzy, allowThrow)

SpecSchema == Init /\ [][NextSchema]_vars

\* the type names of the findAll and find calls of the next specifications, one of
\* them not in its normal form
Aliases == {"pod", "Pod"}

\* findAll in the mode all under either name of the type, answered and completed, with
\* the loads of a schema and of a pod before and after it: the caller makes one call at a
\* time
NextReplace ==
    \/ tasks = <<>> /\ Load(SchemaOf("pod"), Undefined)
    \/ tasks = <<>> /\ Load(Res("pod", "c", "1"), Undefined)
    \/ \E k \in DOMAIN tasks, w \in BOOLEAN : LoadDone(k, w)
    \/ \E k \in DOMAIN tasks, w \in BOOLEAN : LoadAllDone(k, w)
    \/ tasks = <<>> /\ \E t \in Aliases : FindAll(t, Opt(FALSE, Undefined, TRUE))
    \/ \E k \in DOMAIN tasks, c \in Collections, w \in BOOLEAN : FindAllResponse(k, c, w)

SpecReplace == Init /\ [][NextReplace]_vars

\* the collections the overlapping calls are answered with
Overlapping == {[data |-> d, revision |-> "5"] : d \in {<<>>, PodSeq({"a"}, "1"), PodSeq({"b"}, "2")}}

\* forced findAll calls in the mode all that overlap, each answered with a collection of
\* its own, once the schema is loaded
NextOverlap ==
    \/ tasks = <<>> /\ Load(SchemaOf("pod"), Undefined)
    \/ \E k \in DOMAIN tasks : LoadDone(k, FALSE)
    \/ FindAll("pod", Opt(TRUE, "all", FALSE))
    \/ \E k \in DOMAIN tasks, c \in Overlapping : FindAllResponse(k, c, FALSE)
    \/ \E k \in DOMAIN tasks : LoadAllDone(k, FALSE)

SpecOverlap == Init /\ [][NextOverlap]_vars

\* the modes of findAll that do not replace the cache
Merging == {"multi", "none", "false"}

\* findAll in the modes multi and none, asking for a watch, with the loads of a schema
\* and of a pod in between
NextMerge ==
    \/ Load(SchemaOf("pod"), Undefined)
    \/ Load(Res("pod", "c", "1"), Undefined)
    \/ \E k \in DOMAIN tasks, w \in BOOLEAN : LoadDone(k, w)
    \/ \E l \in Merging : FindAll("pod", Opt(FALSE, l, TRUE))
    \/ \E k \in DOMAIN tasks, c \in Collections, w \in BOOLEAN : FindAllResponse(k, c, w)

SpecMerge == Init /\ [][NextMerge]_vars

\* the ids of the find calls: a plain one and one of a namespaced resource
FindIds == {"c", "ns/a"}

\* the resource the server answers a find with: the one asked for, at version 2
Fetched1(k) == Res("pod", tasks[k].id, "2")

\* find calls answered or failing, and findAll calls failing, with the load of the
\* schema of pod in between
NextOne ==
    \/ Load(SchemaOf("pod"), Undefined)
    \/ \E k \in DOMAIN tasks, w \in BOOLEAN : LoadDone(k, w)
    \/ \E t \in Aliases, i \in FindIds, f \in BOOLEAN : Find(t, i, Opt(f, Undefined, TRUE))
    \/ \E k \in DOMAIN tasks, w \in BOOLEAN : FindResponse(k, Fetched1(k), w)
    \/ \E k \in DOMAIN tasks : FindFail(k)
    \/ FindAll("pod", Opt(FALSE, Undefined, TRUE))
    \/ \E k \in DOMAIN tasks : FindAllFail(k)

SpecOne == Init /\ [][NextOne]_vars

(***************************************************************************)
(* The socket, the watch calls and the messages of the server.             *)
(***************************************************************************)
\* the socket of utils/socket: connecting until it has been open once, reconnecting after
\* it has lost a connection; hasReconnected is set when it opens again
NewSocket == [state |-> "connecting", hasReconnected |-> FALSE]

\* subscribe(): a socket is made and connects, or the one there is told to connect
Subscribe ==
    /\ wantSocket' = TRUE
    /\ socket' = IF socket = Null THEN NewSocket
                 ELSE IF socket.state = "disconnected"
                 THEN [socket EXCEPT !.state = "connecting"]
                 ELSE socket
    /\ UNCHANGED <<types, heap, generation, tasks, pendingFrames, wire, started, inError,
                   queue, queueTimer, ret, page, route, timers, context>>

\* the socket reports connected and opened runs
SocketConnected ==
    /\ socket # Null
    /\ socket.state \in {"connecting", "reconnecting"}
    /\ LET s == [Store EXCEPT !.socket = [state |-> "connected",
                                          hasReconnected |-> socket.hasReconnected
                                                             \/ socket.state = "reconnecting"]]
           r == opened(s)
       IN  /\ Fits(r)
           /\ Commit(r)
           /\ ret' = Returned("opened", "", OrEmpty(r.val))
    /\ queueTimer # Undefined \/ HandleLeft
    /\ LET f == startFlush(queue, queueTimer, timers)
       IN  /\ queue' = f.queue
           /\ queueTimer' = f.queueTimer
           /\ timers' = f.timers
    /\ UNCHANGED <<wantSocket, page, route, context>>

\* a closed that empties the buffer of pending frames as well
SocketDisconnectedDropsFrames ==
    /\ socket # Null
    /\ socket.state = "connected"
    /\ socket' = [socket EXCEPT !.state = "reconnecting"]
    /\ wire' = <<>>
    /\ pendingFrames' = <<>>
    /\ queueTimer' = closed(queueTimer, timers).queueTimer
    /\ timers' = closed(queueTimer, timers).timers
    /\ UNCHANGED <<types, heap, generation, tasks, started, inError,
                   wantSocket, queue, ret, page, route, context>>

\* the socket reports disconnected and closed runs; the frames the server had not
\* answered are lost with the connection
SocketDisconnected ==
    /\ socket # Null
    /\ socket.state = "connected"
    /\ socket' = [socket EXCEPT !.state = "reconnecting"]
    /\ wire' = <<>>
    /\ queueTimer' = closed(queueTimer, timers).queueTimer
    /\ timers' = closed(queueTimer, timers).timers
    /\ UNCHANGED <<types, heap, generation, tasks, pendingFrames, started, inError,
                   wantSocket, queue, ret, page, route, context>>

\* the socket reports a connect error and error runs
SocketConnectError ==
    /\ socket # Null
    /\ socket.state \in {"connecting", "reconnecting"}
    /\ queueTimer' = closed(queueTimer, timers).queueTimer
    /\ timers' = closed(queueTimer, timers).timers
    /\ UNCHANGED <<types, heap, generation, tasks, socket, pendingFrames, wire, started,
                   inError, wantSocket, queue, ret, page, route, context>>

\* the descriptors of the watch calls
Descs == {Desc("pod", Undefined, Undefined, Undefined), Desc("Pod", "ns", "a", Undefined)}

\* watch(params) for a descriptor, without revision and stop
Watch(d, force) ==
    LET r == watch(Store, Params(d, Undefined, FALSE, force))
    IN  /\ Fits(r)
        /\ Commit(r)
        /\ UNCHANGED <<ret, wantSocket, queue, queueTimer, page, route, timers, context>>

\* the store once the server has taken the first frame off the connection
Taken == [Store EXCEPT !.wire = Tail(@)]

\* the server answers the first frame with resource.start
ReplyStart ==
    /\ socket # Null /\ socket.state = "connected"
    /\ wire # <<>>
    /\ Commit(wsResourceStart(Taken, Head(wire)))
    /\ ret' = Returned("ws.resource.start", Head(wire).resourceType,
                       IF watchStarted(Store, DescOf(Head(wire)))
                       THEN "already started" ELSE "started")
    /\ UNCHANGED OtherThanStore

\* the server answers the first frame with resource.error
ReplyError(err) ==
    /\ socket # Null /\ socket.state = "connected"
    /\ wire # <<>>
    /\ LET r == wsResourceError(Taken, Head(wire), err)
       IN  /\ Commit(r)
           /\ ret' = Returned("ws.resource.error", Head(wire).resourceType, OrEmpty(r.val))
    /\ UNCHANGED OtherThanStore

\* the server ends a watch it had started: resource.stop
ServerStop(i) ==
    /\ socket # Null /\ socket.state = "connected"
    /\ i \in 1..Len(started)
    /\ LET r == wsResourceStop(Store, Msg(started[i]))
       IN  /\ Fits(r)
           /\ Commit(r)
           /\ ret' = Returned("ws.resource.stop", started[i].type, OrEmpty(r.val))
    /\ UNCHANGED OtherThanStore

\* the server reports a started watch as too old: resource.error
ServerTooOld(i) ==
    /\ socket # Null /\ socket.state = "connected"
    /\ i \in 1..Len(started)
    /\ LET r == wsResourceError(Store, Msg(started[i]), "too old")
       IN  /\ Commit(r)
           /\ ret' = Returned("ws.resource.error", started[i].type, OrEmpty(r.val))
    /\ UNCHANGED OtherThanStore

\* the timer of ws.resource.stop fires and watch is called again
StopTimer(k) ==
    /\ k \in DOMAIN tasks
    /\ tasks[k].pc = "timer"
    /\ LET r == watch(DropTask(Store, k), Params(tasks[k].data[1], Undefined, FALSE, FALSE))
       IN  /\ Fits(r)
           /\ Commit(r)
    /\ UNCHANGED <<ret, wantSocket, queue, queueTimer, page, route, timers, context>>

\* unsubscribe(disconnect) is called
Unsubscribe(disconnect) ==
    LET r == unsubscribe(Store, disconnect)
    IN  /\ Fits(r)
        /\ Commit(r)
        /\ wantSocket' = IF socket # Null /\ disconnect THEN FALSE ELSE wantSocket
        /\ ret' = IF r.async THEN ret
                  ELSE Returned("unsubscribe", "false", OrEmpty(r.val))
        /\ UNCHANGED <<queue, queueTimer, page, route, timers, context>>

\* the disconnect of the socket resolves: the socket is disconnected, closed has run on
\* its event and unsubscribe returns
Unsubscribed(k) ==
    /\ k \in DOMAIN tasks
    /\ tasks[k].op = "unsubscribe"
    /\ Commit([DropTask(Store, k) EXCEPT !.socket.state = "disconnected", !.wire = <<>>])
    /\ queueTimer' = closed(queueTimer, timers).queueTimer
    /\ timers' = closed(queueTimer, timers).timers
    /\ ret' = Returned("unsubscribe", "true", "")
    /\ UNCHANGED <<wantSocket, queue, page, route, context>>

\* the descriptors of the watches that unsubscribe finds started: the pods, whose schema
\* is there once its load has ended, and the schemas
Watched ==
    {Desc("pod", Undefined, Undefined, Undefined), Desc(SCHEMA, Undefined, Undefined, Undefined)}

\* watches started and then cancelled by unsubscribe
NextUnsubscribe ==
    \/ Load(SchemaOf("pod"), Undefined)
    \/ \E k \in DOMAIN tasks : LoadDone(k, FALSE)
    \/ Subscribe
    \/ SocketConnected
    \/ SocketDisconnected
    \/ \E d \in Watched : Watch(d, TRUE)
    \/ ReplyStart
    \/ \E disconnect \in BOOLEAN : Unsubscribe(disconnect)
    \/ \E k \in DOMAIN tasks : Unsubscribed(k)

SpecUnsubscribe == Init /\ [][NextUnsubscribe]_vars

\* the watches with the schema of pod as the one resource loaded, so that no frame has
\* a resource version
NextWatch ==
    \/ Load(SchemaOf("pod"), Undefined)
    \/ \E k \in DOMAIN tasks : LoadDone(k, FALSE)
    \/ Subscribe
    \/ SocketConnected
    \/ SocketDisconnected
    \/ SocketConnectError
    \/ \E d \in Descs, f \in BOOLEAN : Watch(d, f)
    \/ ReplyStart
    \/ \E e \in Errors : ReplyError(e)
    \/ \E i \in 1..Len(started) : ServerStop(i)
    \/ \E k \in DOMAIN tasks : StopTimer(k)

SpecWatch == Init /\ [][NextWatch]_vars

\* watch calls with and without force on a socket that connects and disconnects, the
\* server starting watches and refusing them
NextGuard ==
    \/ Subscribe
    \/ SocketConnected
    \/ SocketDisconnected
    \/ \E d \in Descs, f \in BOOLEAN : Watch(d, f)
    \/ ReplyStart
    \/ ReplyError("watch not allowed")

SpecGuard == Init /\ [][NextGuard]_vars

\* the pods the reconnect specification loads, the one of the descriptor with an id at
\* the lower version
WatchData == <<Res("pod", "a", "1"), Res("pod", "b", "2")>>

\* the reconnects of a socket whose watches have a cache with resource versions
NextReconnect ==
    \/ Load(SchemaOf("pod"), Undefined)
    \/ LoadAll("pod", WatchData)
    \/ \E k \in DOMAIN tasks : LoadDone(k, FALSE)
    \/ \E k \in DOMAIN tasks : LoadAllDone(k, FALSE)
    \/ Subscribe
    \/ SocketConnected
    \/ SocketDisconnected
    \/ \E d \in Descs : Watch(d, FALSE)
    \/ ReplyStart
    \/ ReplyError("watch not allowed")

SpecReconnect == Init /\ [][NextReconnect]_vars

\* the lists the resync specification loads
ResyncData == {PodSeq({"a", "b", "c"}, "1"), PodSeq({"a", "c"}, "1")}

NextResync ==
    \/ \E d \in ResyncData : LoadAll("pod", d)
    \/ \E k \in DOMAIN tasks : LoadAllDone(k, FALSE)
    \/ Subscribe
    \/ SocketConnected
    \/ \E d \in Descs : Watch(d, FALSE)
    \/ ReplyStart
    \/ \E i \in 1..Len(started) : ServerTooOld(i)

SpecResync == Init /\ [][NextResync]_vars

(***************************************************************************)
(* The change events of the server and the flush timer.                    *)
(***************************************************************************)
\* the change events of the model: a create, two changes of the same pod of which one
\* has no revision, a remove, a message without data and the change of a schema
Events ==
    {Event("ws.resource.create", Res("pod", "b", "1"), "1"),
     Event("ws.resource.change", Res("pod", "a", "2"), "2"),
     Event("ws.resource.change", Res("pod", "a", "5"), Undefined),
     Event("ws.resource.remove", Res("pod", "a", "2"), "2"),
     Event("ws.resource.change", NoData, Undefined),
     Event("ws.resource.change", SchemaOf("pod"), "1")}

\* ws.resource.create, ws.resource.change and ws.resource.remove: the handler calls
\* queueChange and does not await it
WsEvent(msg) ==
    /\ socket # Null /\ socket.state = "connected"
    /\ LET r == queueChange(msg, msg.name # "ws.resource.remove",
                            IF msg.name = "ws.resource.create" THEN "create"
                            ELSE IF msg.name = "ws.resource.change" THEN "change"
                            ELSE "remove")
       IN  /\ queue' = queue \o r.push
           /\ ret' = Returned(msg.name, OrEmpty(msg.data.id), OrEmpty(r.val))
    /\ UNCHANGED <<types, heap, generation, tasks, socket, wantSocket, pendingFrames, wire,
                   started, inError, queueTimer, page, route, timers, context>>

\* the messages of the model: about the watch of the pods or of one pod in a namespace,
\* with the data of a pod where the name is one that carries data
Inbounds ==
    LET pods == Desc("pod", Undefined, Undefined, Undefined)
        one == Desc("pod", "ns", "a", Undefined)
    IN  {Inbound("ping", pods, NoData, Undefined)}
        \cup {Inbound(n, d, NoData, Undefined) :
                  n \in {"resource.start", "resource.stop"}, d \in {pods, one}}
        \cup {Inbound("resource.error", pods, NoData, e) : e \in Errors \cup {Undefined}}
        \cup {Inbound("resource.error", one, NoData, "watch not allowed")}
        \cup {Inbound(n, pods, Res("pod", "a", "1"), Undefined) :
                  n \in {"resource.create", "resource.change", "resource.remove",
                         "cluster", "resource.patch"}}

\* a message arrives on the socket and the handler of EVENT_MESSAGE runs
SocketMessage(msg) ==
    /\ socket # Null /\ socket.state = "connected"
    /\ LET r == onMessage(Store, msg)
       IN  /\ Fits(r.s)
           /\ Commit(r.s)
           /\ queue' = queue \o r.push
           /\ ret' = [op |-> "message", arg |-> msg.name, val |-> OrEmpty(r.val),
                      called |-> OrEmpty(r.called), name |-> r.name]
    /\ UNCHANGED <<wantSocket, queueTimer, page, route, timers, context>>

\* the flush timer fires and flushQueue runs
FlushTimer ==
    \E h \in timers :
        /\ Handles \ ((timers \ {h}) \cup {queueTimer}) # {}
        /\ LET r == flushQueue(queue, queueTimer, timers \ {h})
           IN  /\ queue' = r.queue
               /\ queueTimer' = r.queueTimer
               /\ timers' = r.timers
        /\ UNCHANGED <<types, heap, generation, tasks, socket, wantSocket, pendingFrames,
                       wire, started, inError, ret, page, route, context>>

\* the payloads the specification of the change events loads
ChangeData == {Res("pod", "a", "1"), Res("pod", "b", "2")}

\* loads, bulk loads and change events on a connected socket
NextChange ==
    \/ \E d \in ChangeData : Load(d, Undefined)
    \/ \E d \in AllData : LoadAll("pod", d)
    \/ \E k \in DOMAIN tasks : LoadDone(k, FALSE)
    \/ \E k \in DOMAIN tasks : LoadAllDone(k, FALSE)
    \/ Subscribe
    \/ SocketConnected
    \/ SocketDisconnected
    \/ \E msg \in Events : WsEvent(msg)
    \/ FlushTimer

SpecChange == Init /\ [][NextChange]_vars

\* the change events of the specification with fair scheduling: one on a pod that the
\* loads do not bring, one that raises the version of a pod, and one removal
LiveEvents ==
    {Event("ws.resource.create", Res("pod", "c", "1"), "1"),
     Event("ws.resource.change", Res("pod", "a", "2"), "2"),
     Event("ws.resource.remove", Res("pod", "b", "2"), "3")}

\* loads and change events on a socket that connects and disconnects
NextLive ==
    \/ \E d \in ChangeData : Load(d, Undefined)
    \/ \E k \in DOMAIN tasks : LoadDone(k, FALSE)
    \/ Subscribe
    \/ SocketConnected
    \/ SocketDisconnected
    \/ \E msg \in LiveEvents : WsEvent(msg)
    \/ FlushTimer

\* the flush timer, once armed, fires, and an awaited decorate is resolved
SpecLive ==
    /\ Init /\ [][NextLive]_vars
    /\ WF_vars(FlushTimer)
    /\ WF_vars(\E k \in DOMAIN tasks : LoadDone(k, FALSE))

\* the events of the socket, the flush timer and the change events, on a store with a
\* schema, watches and frames
NextFlush ==
    \/ Load(SchemaOf("pod"), Undefined)
    \/ \E k \in DOMAIN tasks : LoadDone(k, FALSE)
    \/ Subscribe
    \/ SocketConnected
    \/ SocketDisconnected
    \/ SocketConnectError
    \/ \E d \in Descs : Watch(d, FALSE)
    \/ ReplyStart
    \/ ReplyError("watch not allowed")
    \/ \E msg \in Events : WsEvent(msg)
    \/ FlushTimer

SpecFlush == Init /\ [][NextFlush]_vars

\* the messages of the server in every order, on a store that loads a schema
NextMessage ==
    \/ Load(SchemaOf("pod"), Undefined)
    \/ \E k \in DOMAIN tasks : LoadDone(k, FALSE)
    \/ Subscribe
    \/ SocketConnected
    \/ \E msg \in Inbounds : SocketMessage(msg)

SpecMessage == Init /\ [][NextMessage]_vars

\* the messages that start and stop a watch
StartStop == {msg \in Inbounds : msg.name \in {"resource.start", "resource.stop"}}

\* watches that the server starts and stops, and the retry of a stopped watch
NextStop ==
    \/ Load(SchemaOf("pod"), Undefined)
    \/ \E k \in DOMAIN tasks : LoadDone(k, FALSE)
    \/ Subscribe
    \/ SocketConnected
    \/ Watch(Desc("pod", Undefined, Undefined, Undefined), FALSE)
    \/ \E msg \in StartStop : SocketMessage(msg)
    \/ \E k \in DOMAIN tasks : StopTimer(k)

SpecStop == Init /\ [][NextStop]_vars

\* the messages that start a watch and report an error of one
StartError == {msg \in Inbounds : msg.name \in {"resource.start", "resource.error"}}

\* watches that the server starts and reports errors of
NextError ==
    \/ Load(SchemaOf("pod"), Undefined)
    \/ \E k \in DOMAIN tasks : LoadDone(k, FALSE)
    \/ Subscribe
    \/ SocketConnected
    \/ Watch(Desc("pod", Undefined, Undefined, Undefined), FALSE)
    \/ \E msg \in StartError : SocketMessage(msg)

SpecError == Init /\ [][NextError]_vars

\* the messages that start a watch of the pods, of one pod and of the nodes, and that
\* report that a watch of the pods or of the nodes is not allowed or has no schema
StartMessages ==
    LET pods == Desc("pod", Undefined, Undefined, Undefined)
        one == Desc("pod", "ns", "a", Undefined)
        nodes == Desc("node", Undefined, Undefined, Undefined)
    IN  {Inbound("resource.start", d, NoData, Undefined) : d \in {pods, one, nodes}}
        \cup {Inbound("resource.error", d, NoData, e) :
                  d \in {pods, one, nodes}, e \in {"watch not allowed", "failed to find schema"}}

\* starts and errors of watches, in any order, on a connected socket
NextStart ==
    \/ Subscribe
    \/ SocketConnected
    \/ SocketDisconnected
    \/ \E msg \in StartMessages : SocketMessage(msg)

SpecStart == Init /\ [][NextStart]_vars

(***************************************************************************)
(* The calls of setupMgmt.                                                 *)
(***************************************************************************)
\* setupMgmt is called, in the build that was met before when there was a call
SetupMgmt ==
    /\ context.calls < MaxCalls
    /\ \E b \in Builds :
           /\ context.build \in {Undefined, b}
           /\ context' = setupMgmt(context, b)
    /\ UNCHANGED <<types, heap, generation, tasks, socket, wantSocket, pendingFrames, wire,
                   started, inError, queue, queueTimer, ret, page, route, timers>>

\* the calls of setupMgmt among the calls that components make on the management store
\* themselves
NextContext ==
    \/ SetupMgmt
    \/ Load(SchemaOf("pod"), Undefined)
    \/ \E k \in DOMAIN tasks : LoadDone(k, FALSE)
    \/ Subscribe
    \/ SocketConnected
    \/ SocketDisconnected
    \/ SocketConnectError
    \/ FlushTimer

SpecContext == Init /\ [][NextContext]_vars

(***************************************************************************)
(* The list calls and the answers of the server.                           *)
(***************************************************************************)
NotPage == <<types, heap, generation, tasks, socket, wantSocket, pendingFrames, wire,
             started, inError, queue, queueTimer, ret, route, timers, context>>

\* apiList is called for a collection
ApiList(pages) ==
    /\ page.pc \in {"idle", "done"}
    /\ page' = apiList(pages)
    /\ UNCHANGED NotPage

\* request is called for the URL of a collection
Request(pages) ==
    /\ page.pc \in {"idle", "done"}
    /\ page' = request(pages)
    /\ UNCHANGED NotPage

\* the server answers the fetch with the page after the cursor
Fetched ==
    /\ page.pc = "fetch"
    /\ LET res == PageAfter(page.pages, Last(page.asked))
       IN  page' = IF page.call = "apiList"
                   THEN apiListResume(page, res)
                   ELSE requestResume(page, res)
    /\ UNCHANGED NotPage

\* the answer to a fetch of apiList is no JSON
FetchedError ==
    /\ page.pc = "fetch"
    /\ page.call = "apiList"
    /\ page' = apiListResume(page, ErrorBody)
    /\ UNCHANGED NotPage

NextPage ==
    \/ \E pages \in Pagings : ApiList(pages)
    \/ \E pages \in Pagings : Request(pages)
    \/ Fetched
    \/ FetchedError

SpecPage == Init /\ [][NextPage]_vars

(***************************************************************************)
(* The requests to the modelfiles route.                                   *)
(***************************************************************************)
\* how many records a response of the model has at most
MaxFiles == 2

\* a model file as the API lists it
ModelFile(id, model, modelID, byteSize) ==
    [id |-> id, status |-> [model |-> model, modelID |-> modelID, byteSize |-> byteSize]]

\* the records of the model: m2 matches "m1" by its model, m3 has no model yet
ModelFiles ==
    {ModelFile(<<"m", "1">>, <<"x">>, <<"a">>, <<"1", "G">>),
     ModelFile(<<"m", "2">>, <<"M", "1">>, <<"a", "a">>, <<"2", "G">>),
     ModelFile(<<"m", "3">>, NoString, <<"x">>, <<"3", "G">>),
     ModelFile(<<"x">>, <<"x">>, <<"x">>, <<"x">>)}

\* the lists apiList resolves with: up to MaxFiles different records in any order
FileLists ==
    UNION {{f \in [1..n -> ModelFiles] : \A i, j \in 1..n : i # j => f[i] # f[j]} :
              n \in 0..MaxFiles}

\* the values of the query parameter q
Patterns == {NoString, <<>>, <<"m", "1">>, <<"M", "1">>, <<"1", "g">>, <<"m", ".">>, <<"(">>}

\* the queries of the model
Queries ==
    [q : Patterns, ids : {<<>>, <<<<"m", "2">>>>}, models : {<<>>, <<<<"x">>>>},
     modelIds : {<<>>, <<<<"a">>>>}, sort : {Undefined, "id", "status.model"},
     order : {Undefined, "asc", "desc"}]

NotRoute == <<types, heap, generation, tasks, socket, wantSocket, pendingFrames, wire,
              started, inError, queue, queueTimer, ret, page, timers, context>>

\* a request reaches the route
Modelfiles(query) ==
    /\ route.pc \in {"idle", "done"}
    /\ route' = modelfilesRoute(query)
    /\ UNCHANGED NotRoute

\* apiList resolves with the records of the API
ModelfilesListed(modelfiles) ==
    /\ route.pc = "apiList"
    /\ route' = modelfilesResume(route, modelfiles)
    /\ UNCHANGED NotRoute

NextRoute ==
    \/ \E query \in Queries : Modelfiles(query)
    \/ \E modelfiles \in FileLists : ModelfilesListed(modelfiles)

SpecRoute == Init /\ [][NextRoute]_vars

(***************************************************************************)
(* Properties of the cache.                                                *)
(***************************************************************************)
\* the type key load caches a payload under
CacheType(d) ==
    IF d.baseType # Undefined /\ d.baseType # d.type
    THEN normalizeType(d.baseType)
    ELSE normalizeType(d.type)

\* how many entries of a list are resources with the id
Count(s, list, id) == Cardinality({i \in 1..Len(list) : OrEmpty(s.heap[list[i]].id) = id})

\* whether an instance is in the list or the map of some type cache
Cached(s, obj) ==
    \E k \in DOMAIN s.types :
        \/ \E i \in 1..Len(s.types[k].list) : s.types[k].list[i] = obj
        \/ \E x \in DOMAIN s.types[k].map : s.types[k].map[x] = obj

\* the instances cached as resources with the id
CachedAs(s, id) == {o \in 1..Len(s.heap) : Cached(s, o) /\ OrEmpty(s.heap[o].id) = id}

\* whether a call of this step sent a request: a task waits in request that did not before
NewRequest ==
    \E k \in DOMAIN tasks' :
        /\ tasks'[k].pc = "request"
        /\ ~(k \in DOMAIN tasks /\ tasks[k].pc = "request")

\* C1: after a findAll(T) with default options has succeeded haveAll of T is true, and a
\* later findAll(T) without force sends no request and returns the cached list
C1_FindAllCaches ==
    [][/\ \A k \in DOMAIN tasks, w \in BOOLEAN :
              (LoadAllDone(k, w) /\ tasks[k].op = "findAll" /\ ret'.val = "list")
                  => types'[tasks[k].type].haveAll
       /\ \A t \in TypeNames, l \in LoadModes, w \in BOOLEAN :
              (t \in DOMAIN types /\ types[t].haveAll /\ FindAll(t, Opt(FALSE, l, w)))
                  => (~NewRequest /\ tasks' = tasks /\ ret'.op = "findAll")]_vars

\* C2: in every type cache the ids of the map are the ids of the list's resources, and each
\* id is in the list once
C2_MapAndListAgree ==
    \A k \in DOMAIN types :
        /\ DOMAIN types[k].map = {OrEmpty(heap[types[k].list[i]].id) : i \in 1..Len(types[k].list)}
        /\ \A x \in DOMAIN types[k].map : Count(Store, types[k].list, x) = 1

\* C3: a load of a payload identical to the cached entry's leaves the list's length and the
\* map's size as they were, returns at once, and the entry under the id is the same object
C3_LoadIsIdempotent ==
    [][\A d \in LoadData :
           (/\ d.id # Undefined
            /\ byId(Store, CacheType(d), d.id) # NoObj
            /\ heap[byId(Store, CacheType(d), d.id)] = d
            /\ Load(d, Undefined))
               => (/\ Len(types'[CacheType(d)].list) = Len(types[CacheType(d)].list)
                   /\ DOMAIN types'[CacheType(d)].map = DOMAIN types[CacheType(d)].map
                   /\ byId(Store', CacheType(d), d.id) = byId(Store, CacheType(d), d.id)
                   /\ types'[CacheType(d)].list = types[CacheType(d)].list
                   /\ heap' = heap
                   /\ tasks' = tasks)]_vars

\* a second load of a cached id has returned and the cache holds the one entry
C3_Witness ==
    /\ ret = Returned("load", "a", "updated")
    /\ "pod" \in DOMAIN types
    /\ Len(types["pod"].list) = 1
    /\ DOMAIN types["pod"].map = {"a"}
    /\ heap[types["pod"].map["a"]] = Res("pod", "a", "1")

\* C4: a load for an id that a completed load has cached leaves byId with the data of the
\* new payload, and the list with as many entries for the id as before (one where it was one)
C4_UpsertOrdering ==
    [][\A d \in LoadData :
           (/\ d.id # Undefined
            /\ byId(Store, CacheType(d), d.id) # NoObj
            /\ Load(d, Undefined))
               => (/\ byId(Store', CacheType(d), d.id) # NoObj
                   /\ heap'[byId(Store', CacheType(d), d.id)] = d
                   /\ Count(Store', types'[CacheType(d)].list, d.id)
                          = Count(Store, types[CacheType(d)].list, d.id))]_vars

\* the load of a second payload for a has returned: byId has version 2, the list one entry
C4_Witness ==
    /\ ret = Returned("load", "a", "updated")
    /\ byId(Store, "pod", "a") # NoObj
    /\ heap[byId(Store, "pod", "a")] = Res("pod", "a", "2")
    /\ Count(Store, types["pod"].list, "a") = 1
    /\ Len(heap) = 1

\* C5: remove of a cached resource takes it out of the list and the map of its cache and
\* returns true; remove of one that is not cached returns false and changes nothing
C5_RemoveRemoves ==
    [][/\ \A i \in {"a", "b", "pod"} :
              RemoveId(i) =>
                  IF CachedAs(Store, i) # {}
                  THEN ret'.val = "true" /\ CachedAs(Store', i) = {}
                  ELSE ret'.val = "false" /\ types' = types
       /\ \A o \in 1..Len(heap) :
              RemoveObj(o) =>
                  IF Cached(Store, o)
                  THEN ret'.val = "true" /\ ~Cached(Store', o)
                  ELSE ret'.val = "false" /\ types' = types]_vars

(***************************************************************************)
(* Properties of the watches.                                              *)
(***************************************************************************)
\* C6: started holds no two entries that are equivalent, so that a descriptor the server
\* has acknowledged twice is there once
C6_OneStartedPerClass ==
    \A i, j \in 1..Len(started) :
        i # j => ~watchesAreEquivalent(started[i], started[j])

\* the server has acknowledged a watch that was started already, and started has the one entry
C6_Witness ==
    /\ ret = Returned("ws.resource.start", "pod", "already started")
    /\ Len(started) = 1

\* what a watch called for the descriptor of the first frame would send or buffer in the
\* state this step leaves
WatchAgain == watch(Store', Params(DescOf(Head(wire)), Undefined, FALSE, FALSE))

\* C7: once the server has answered the watch of a descriptor with the error 'watch not
\* allowed', a watch for that descriptor without force and stop sends and buffers no frame
C7_NoWatchAfterNotAllowed ==
    [][ReplyError("watch not allowed")
           => (WatchAgain.wire = wire' /\ WatchAgain.pendingFrames = pendingFrames')]_vars

\* the resource version of the cache, as nextResourceVersion is to find it: the own one of
\* the entry under id, else the highest of the cache's revision and its entries', and 0
\* when one of those is no number or none is above 0
ExpectedVersion(s, type, id) ==
    LET existing == IF id # Undefined THEN byId(s, type, id) ELSE NoObj
        own == IF existing # NoObj THEN ParseInt(s.heap[existing].rv) ELSE 0
        list == s.types[type].list
        revs == {s.types[type].revision} \cup {ParseInt(s.heap[list[i]].rv) : i \in 1..Len(list)}
    IN  IF own > 0 THEN own
        ELSE IF type \notin DOMAIN s.types \/ NaN \in revs THEN 0
        ELSE CHOOSE m \in revs : \A x \in revs : x <= m

\* whether a frame subscribes to the descriptor of a started entry
ReissuedFor(e, f) ==
    /\ f.resourceType = normalizeType(e.type)
    /\ f.namespace = e.namespace
    /\ f.id = e.id
    /\ f.selector = e.selector
    /\ ~f.stop

\* the started entries a reconnect subscribes to again: those with a schema, not in error
Reissued == SelectSeq(started, LAMBDA e : schemaFor(Store, e.type) # NoObj /\ canWatch(Store, e))

CacheIds(s, type) == {OrEmpty(s.heap[s.types[type].list[i]].id) : i \in 1..Len(s.types[type].list)}

\* C9: a resync of a type whose cache holds a, b and c, answered with a and c, is under way
\* or has left the cache with a and c
C9_ResyncDropsStale ==
    [][\A i \in 1..Len(started) :
           (/\ started[i] = Desc("pod", Undefined, Undefined, Undefined)
            /\ "pod" \in DOMAIN types
            /\ types["pod"].haveAll
            /\ CacheIds(Store, "pod") = {"a", "b", "c"}
            /\ ServerTooOld(i))
               => \/ \E k \in DOMAIN tasks' : tasks'[k].op = "resyncWatch"
                  \/ CacheIds(Store', "pod") = {"a", "c"}]_vars

(***************************************************************************)
(* Properties of the list calls.                                           *)
(***************************************************************************)
\* C10: a list call on a collection of three pages, which the server answers with has_more
\* true, true and false, has fetched three times when it returns, the second and third
\* time with the last_id of the page before as cursor, and returns the data of the three
\* pages in their order
C10_ThreePagesFollowed ==
    (/\ page.pc = "done"
     /\ Len(page.pages) = 3
     /\ \A n \in 1..Len(page.served) : page.served[n].type # "error")
        => /\ page.asked = <<Undefined, Last(page.pages[1]), Last(page.pages[2])>>
           /\ page.data = page.pages[1] \o page.pages[2] \o page.pages[3]

(***************************************************************************)
(* Properties of the modelfiles route.                                     *)
(***************************************************************************)
\* whether one of the four fields of mf is there and has a match of the pattern q
AnyFieldMatches(mf, q) ==
    \E x \in {mf.id, mf.status.model, mf.status.modelID, mf.status.byteSize} :
        x # NoString /\ Found(x, q)

\* whether the request has q as its one parameter, or none
OnlyQ(query) ==
    /\ query.ids = <<>> /\ query.models = <<>> /\ query.modelIds = <<>>
    /\ query.sort = Undefined

\* C11: a request with the filter query q is answered with exactly the records that
\* match q, case-insensitively, in one of id, status.model, status.modelID and
\* status.byteSize, and with every record when q is absent
C11_FilterByQ ==
    (route.pc = "done" /\ OnlyQ(route.query))
        => /\ route.val = "array"
           /\ route.out = IF route.query.q \in {NoString, <<>>}
                          THEN route.records
                          ELSE SelectSeq(route.records,
                                         LAMBDA mf : AnyFieldMatches(mf, route.query.q))

(***************************************************************************)
(* Properties of the revision and of the change events.                    *)
(***************************************************************************)
\* the resource versions of the resources cached for a type
CachedVersions(t) == {ParseInt(heap[types[t].list[i]].rv) : i \in 1..Len(types[t].list)}

\* C12: the revision of a type cache never decreases, and it is at least the highest
\* metadata.resourceVersion of the resources cached for the type
C12_RevisionWatermark ==
    /\ [](\A t \in DOMAIN types : \A v \in CachedVersions(t) \ {NaN} : types[t].revision >= v)
    /\ [][\A t \in DOMAIN types : types'[t].revision >= types[t].revision]_vars

(***************************************************************************)
(* Properties of findAll and find.                                         *)
(***************************************************************************)
\* the instances of a list
Listed(list) == {list[i] : i \in 1..Len(list)}

\* whether task k is a findAll in the mode m whose call ends in this step
Completes(k, m) ==
    /\ k \in DOMAIN tasks
    /\ tasks[k].op = "findAll" /\ tasks[k].load = m /\ tasks[k].pc # "request"
    /\ k \notin DOMAIN tasks'

\* whether the cache of type t is made of the resources of data, in their order
HoldsExactly(t, data) ==
    /\ t \in DOMAIN types'
    /\ Len(types'[t].list) = Len(data)
    /\ \A i \in 1..Len(data) : heap'[types'[t].list[i]] = data[i]
    /\ DOMAIN types'[t].map = {data[i].id : i \in 1..Len(data)}
    /\ \A i \in 1..Len(data) : heap'[types'[t].map[data[i].id]] = data[i]

\* C13: when a findAll in the mode all completes and no other call is in flight, the
\* list and the map of the type, the ones the getters read under the normal form of its
\* name, hold exactly the resources of the response, and haveAll of the type is true
C13_FindAllReplaces ==
    [][\A k \in DOMAIN tasks :
           (Completes(k, "all") /\ DOMAIN tasks' = {})
               => /\ HoldsExactly(normalizeType(tasks[k].type), tasks[k].data)
                  /\ types'[normalizeType(tasks[k].type)].haveAll]_vars

\* whether the step is one of a findAll in the mode m that has its response: the step
\* that takes the response, or the end of a load the call awaits
StepOf(k, m) ==
    /\ k \in DOMAIN tasks
    /\ tasks[k].op = "findAll" /\ tasks[k].load = m
    /\ \/ tasks[k].pc = "request" /\ (k \notin DOMAIN tasks' \/ tasks'[k].pc # "request")
       \/ \E j \in DOMAIN tasks : tasks[j].parent = k /\ j \notin DOMAIN tasks'

\* whether every cached instance stays where it is cached and every haveAll what it is
CacheKept ==
    \A t \in DOMAIN types :
        /\ t \in DOMAIN types'
        /\ Listed(types[t].list) \subseteq Listed(types'[t].list)
        /\ \A x \in DOMAIN types[t].map :
               x \in DOMAIN types'[t].map /\ types'[t].map[x] = types[t].map[x]
        /\ types'[t].haveAll = types[t].haveAll

\* whether the resource is in the cache of its type, with these data, after the step
CachedNext(item) ==
    LET o == byId([types |-> types'], item.type, item.id)
    IN  o # NoObj /\ heap'[o] = item

\* C14: a findAll in the mode multi merges: its steps leave every cached resource cached
\* and haveAll of every type as it was (false for a type they register); a resource of
\* the response is cached at once or when the load the call awaits for it ends, so that
\* every one is cached when the call completes
C14_MultiMerges ==
    [][\A k \in DOMAIN tasks :
           /\ StepOf(k, "multi")
                  => /\ CacheKept
                     /\ \A t \in DOMAIN types' \ DOMAIN types : ~types'[t].haveAll
                     /\ k \notin DOMAIN tasks'
                            => ~\E j \in DOMAIN tasks' : tasks'[j].parent = k
           /\ \A c \in Collections, w \in BOOLEAN :
                  (/\ tasks[k].op = "findAll" /\ tasks[k].load = "multi"
                   /\ tasks[k].pc = "request"
                   /\ k \notin DOMAIN tasks' \/ tasks'[k].pc # "request"
                   /\ FindAllResponse(k, c, w))
                      => \A i \in 1..Len(c.data) :
                             \/ CachedNext(c.data[i])
                             \/ \E j \in DOMAIN tasks' :
                                    /\ tasks'[j].parent = k
                                    /\ tasks'[j].data = <<c.data[i]>>
           /\ (tasks[k].op = "load" /\ tasks[k].parent # 0 /\ k \notin DOMAIN tasks')
                  => CachedNext(tasks[k].data[1])]_vars

\* a findAll in the mode multi has returned with the pod that was cached before it and
\* the pod of its response in the cache, haveAll being false
C14_Witness ==
    /\ ret = Returned("findAll", "pod", "list")
    /\ "pod" \in DOMAIN types
    /\ DOMAIN types["pod"].map = {"a", "c"}
    /\ Len(types["pod"].list) = 2
    /\ ~types["pod"].haveAll

\* whether a findAll in the mode none is called or takes its response in this step
NoneStep(k) ==
    \/ /\ k \in DOMAIN tasks' /\ k \notin DOMAIN tasks
       /\ tasks'[k].op = "findAll" /\ tasks'[k].load = "none"
    \/ /\ k \in DOMAIN tasks /\ k \notin DOMAIN tasks'
       /\ tasks[k].op = "findAll" /\ tasks[k].load = "none"

\* C15: a findAll in the mode none (load "none" or false) leaves every type cache, the
\* started set and the frames sent and buffered as they are, and returns the decorated
\* entries of the response
C15_NoneLeavesStore ==
    [][\A k \in DOMAIN tasks \cup DOMAIN tasks' :
           NoneStep(k)
               => /\ types' = types
                  /\ started' = started
                  /\ pendingFrames' = pendingFrames /\ wire' = wire
                  /\ k \in DOMAIN tasks
                         => ret' = Returned("findAll", tasks[k].type, "decorated")]_vars

\* a findAll in the mode none has returned and the cache has the one pod loaded before
C15_Witness ==
    /\ ret = Returned("findAll", "pod", "decorated")
    /\ "pod" \in DOMAIN types
    /\ DOMAIN types["pod"].map = {"c"}
    /\ pendingFrames = <<>>

(***************************************************************************)
(* Properties of find and of the failures of the requests.                 *)
(***************************************************************************)
\* the find calls of the specification
FindCalls == Aliases \X FindIds \X BOOLEAN

\* whether the step is the find call c = <<type, id, force>>
FindCall(c) == Find(c[1], c[2], Opt(c[3], Undefined, TRUE))

\* whether find(type, id) finds its entry in the cache and may use it
Hit(c) == ~c[3] /\ byId(Store, c[1], c[2]) # NoObj

\* the calls of find that wait for the answer of their request after the step
Requests == {k \in DOMAIN tasks' : tasks'[k].op = "find" /\ tasks'[k].pc = "request"}

\* the requests the step issues: a call of find newly waiting for its answer
Issued == {k \in Requests : k \notin DOMAIN tasks \/ tasks[k].op # "find" \/ tasks[k].pc # "request"}

\* a find with its entry cached and no force returns it without a request
HitReturns ==
    \A c \in FindCalls :
        (FindCall(c) /\ Hit(c))
            => /\ Issued = {}
               /\ tasks' = tasks
               /\ ret' = Returned("find", c[1], "entry")

\* a find that has returned normally has the resource of the answer in the cache of its
\* type, under its id
FetchedIsCached ==
    \A k \in DOMAIN tasks :
        (/\ tasks[k].op = "find"
         /\ k \notin DOMAIN tasks'
         /\ ret'.val # "Error")
            => /\ ret' = Returned("find", tasks[k].type, "entry")
               /\ CachedNext(Fetched1(k))

\* a step other than a call of find issues no request of find
OnlyCallsIssue == (\A c \in FindCalls : ~FindCall(c)) => Issued = {}

\* C16: a find whose entry is cached and that is not forced returns the entry and issues
\* no request; any other find issues exactly one request, or none when the URL of the
\* type cannot be resolved (it then fails); a call issues no further request later, and
\* when it returns after its request has succeeded, byId(type, id) is the fetched resource
C16_FindCachedOrFetched ==
    [][/\ HitReturns
       /\ \A c \in FindCalls :
              (FindCall(c) /\ ~Hit(c))
                  => IF urlForThrows(Store, c[1])
                     THEN Issued = {} /\ ret' = Returned("find", c[1], "Error")
                     ELSE /\ Cardinality(Issued) = 1
                          /\ \A k \in Issued : tasks'[k].type = c[1] /\ tasks'[k].id = c[2]
       /\ OnlyCallsIssue
       /\ FetchedIsCached]_vars

\* C16 as stated: a find whose entry is not cached, or that is forced, issues exactly
\* one request
C16_FindOneRequest ==
    [][/\ HitReturns
       /\ \A c \in FindCalls :
              (FindCall(c) /\ ~Hit(c)) => Cardinality(Issued) = 1
       /\ OnlyCallsIssue
       /\ FetchedIsCached]_vars

\* a find of the cached pod c has returned the entry, which an earlier forced find had
\* fetched at version 2
C16_Witness ==
    /\ ret = Returned("find", "pod", "entry")
    /\ tasks = <<>>
    /\ byId(Store, "pod", "c") # NoObj
    /\ heap[byId(Store, "pod", "c")].rv = "2"
    /\ byId(Store, "pod", "ns/a") # NoObj

\* whether the step is the failure of the request of call k
RequestFails(k) == FindFail(k) \/ FindAllFail(k)

\* C17: when the request of a findAll or of a find fails, the call fails to its caller,
\* the type caches, the started set and the buffer of pending frames stay as they are,
\* and no frame is sent
C17_FailurePropagates ==
    [][\A k \in DOMAIN tasks :
           RequestFails(k)
               => /\ ret' = Returned(tasks[k].op, tasks[k].type, "Error")
                  /\ types' = types
                  /\ started' = started
                  /\ pendingFrames' = pendingFrames
                  /\ wire' = wire]_vars

\* the request of a find of a pod has failed with the schema of pod loaded, so the
\* failure is the one of the request
C17_Witness ==
    /\ ret = Returned("find", "pod", "Error")
    /\ ~urlForThrows(Store, "pod")
    /\ tasks = <<>>

(***************************************************************************)
(* Properties of a load without id.                                        *)
(***************************************************************************)
\* C18: a load of a resource without id, no existing entry given, returns with no result
\* and starts nothing; every cache keeps its list and its map, a cache the call registers
\* is empty, no instance is made or changed, and the generation is not counted up
C18_NoIdRejected ==
    [][\A d \in LoadData :
           (d.id = Undefined /\ Load(d, Undefined))
               => /\ ret' = Returned("load", "", "")
                  /\ tasks' = tasks
                  /\ heap' = heap
                  /\ generation' = generation
                  /\ \A t \in DOMAIN types : t \in DOMAIN types' /\ types'[t] = types[t]
                  /\ \A t \in DOMAIN types' \ DOMAIN types :
                         types'[t].list = <<>> /\ types'[t].map = EmptyMap]_vars

\* a load without id has returned with nothing on a store that has a pod cached
C18_Witness ==
    /\ ret = Returned("load", "", "")
    /\ "pod" \in DOMAIN types
    /\ types["pod"].list # <<>>
    /\ tasks = <<>>

(***************************************************************************)
(* Properties of the frames that are buffered and replayed.                *)
(***************************************************************************)
\* whether seq ends with the sequence tail
EndsWith(seq, tail) ==
    /\ Len(seq) >= Len(tail)
    /\ SubSeq(seq, Len(seq) - Len(tail) + 1, Len(seq)) = tail

\* whether the step is a watch call made while no connected socket is there
WatchWhileDown ==
    /\ socket = Null \/ socket.state # "connected"
    /\ \E d \in Descs, f \in BOOLEAN : Watch(d, f)

\* a frame sent while the socket is absent or not connected goes to the end of the buffer
\* of pending frames and not to the socket
BufferedWhenDown ==
    WatchWhileDown
        => /\ wire' = wire
           /\ Len(pendingFrames') = Len(pendingFrames) + 1
           /\ SubSeq(pendingFrames', 1, Len(pendingFrames)) = pendingFrames

\* at a connected event the buffered frames are handed to the socket, in their order and
\* once each, after the frames the handler sends itself, and the buffer is left empty
ReplayedWhenConnected ==
    SocketConnected
        => /\ pendingFrames' = <<>>
           /\ EndsWith(wire', pendingFrames)
           /\ Len(wire') <= Len(wire) + Len(started) + Len(pendingFrames)

\* C19: send buffers the frame when the socket is absent or does not take it, and the
\* next connected event hands the buffered frames to the socket in their order, each
\* once, and leaves the buffer empty
C19_BufferedAndReplayed == [][BufferedWhenDown /\ ReplayedWhenConnected]_vars

(***************************************************************************)
(* Properties of the order in which change events are applied.             *)
(***************************************************************************)
\* the id a queued action is about
ActionId(a) == IF a.action = "load" THEN a.body.id ELSE a.id

\* whether the message is a change event of a resource that is no schema
ResourceEvent(m) == m.data # NoData /\ normalizeType(m.data.type) # SCHEMA

\* the event of the step is queued behind the actions that wait, none of which is
\* dropped or merged
QueuedInArrivalOrder ==
    \A m \in Events :
        (ResourceEvent(m) /\ WsEvent(m))
            => /\ Len(queue') = Len(queue) + 1
               /\ SubSeq(queue', 1, Len(queue)) = queue
               /\ ActionId(queue'[Len(queue')]) = m.data.id
               /\ queue'[Len(queue')].action
                      = IF m.name = "ws.resource.remove" THEN "remove" ELSE "load"

\* a flush empties the queue and leaves, for every type and id, what the last queued
\* action on it makes of the cache
LastWriteWins ==
    (FlushTimer /\ queue # <<>>)
        => /\ queue' = <<>>
           /\ \A n \in 1..Len(queue) :
                  (\A j \in (n + 1)..Len(queue) :
                       queue[j].type # queue[n].type \/ ActionId(queue[j]) # ActionId(queue[n]))
                      => IF queue[n].action = "load"
                         THEN CachedNext(queue[n].body)
                         ELSE byId([types |-> types'], queue[n].type, queue[n].id) = NoObj

\* C20: the change events are applied in the order of their arrival, none coalesced:
\* each is queued behind the ones that wait, and a flush applies the queue in order, so
\* that the last event on a type and id decides what the cache holds
C20_EventsInArrivalOrder == [][QueuedInArrivalOrder /\ LastWriteWins]_vars

(***************************************************************************)
(* Properties of the bootstrap of the management store.                    *)
(***************************************************************************)
\* C21: once setupMgmt has been called, however often, configure, subscribe and
\* loadSchemas have each been invoked exactly once
C21_BootstrappedOnce ==
    context.calls >= 1
        => /\ context.configure = 1
           /\ context.subscribe = 1
           /\ context.loadSchemas = 1

(***************************************************************************)
(* Properties of unsubscribe.                                              *)
(***************************************************************************)
\* whether unsubscribe(false) leaves the entry in started: a watch of the schemas, or of
\* a type that has no schema
Kept(e) == e.type = SCHEMA \/ (schemasLoaded(Store) /\ schemaFor(Store, e.type) = NoObj)

\* whether the frames are the stop frames of the entries, in their order
StopFramesOf(frames, entries) ==
    /\ Len(frames) = Len(entries)
    /\ \A n \in 1..Len(frames) :
           /\ frames[n].stop
           /\ DescOf(frames[n]) = entries[n]

\* whether the step is an unsubscribe that stops the watches and does not throw
StopsWatches ==
    /\ \/ Unsubscribe(FALSE)
       \/ socket = Null /\ Unsubscribe(TRUE)
    /\ ret' = Returned("unsubscribe", "false", "")

\* whether the step is the call of an unsubscribe that disconnects the socket
Disconnects == socket # Null /\ Unsubscribe(TRUE)

HandlerOf(name) ==
    CASE name = "ping" -> "ws.ping"
      [] name = "resource.start" -> "ws.resource.start"
      [] name = "resource.error" -> "ws.resource.error"
      [] name = "resource.stop" -> "ws.resource.stop"
      [] name = "resource.create" -> "ws.resource.create"
      [] name = "resource.change" -> "ws.resource.change"
      [] name = "resource.remove" -> "ws.resource.remove"

\* the load action a resource.change with this data is to put in the queue
LoadAction(data) ==
    [action |-> "load", type |-> normalizeType(data.type), id |-> Undefined, body |-> data,
     event |-> "change"]

\* the state of the store, the connection and the queue is the same after the step
StoreKept ==
    UNCHANGED <<types, heap, generation, tasks, socket, wantSocket, pendingFrames, wire,
                started, inError, queue, queueTimer, timers>>

\* C23: a message with one of the seven known names is handled by the action of that
\* name; a message with an unknown name that holds no dot is handled as resource.change,
\* its data being put in the queue as a load action; a message with any other name
\* changes no state of the store
C23_MessageDispatch ==
    [][\A msg \in Inbounds :
           SocketMessage(msg) =>
               /\ msg.name \in Known => ret'.called = HandlerOf(msg.name)
               /\ (msg.name \notin Known /\ ~includesDot(msg.name)) =>
                      queue' = Append(queue, LoadAction(msg.data))
               /\ (msg.name \notin Known /\ includesDot(msg.name)) => StoreKept]_vars

C26_OnlyTheTimer ==
    [][/\ (SocketDisconnected \/ SocketConnectError) =>
              UNCHANGED <<pendingFrames, queue, started, inError, types, heap, generation>>
       /\ pendingFrames' # pendingFrames =>
              \/ SocketConnected
              \/ \E i \in 1..Len(pendingFrames') :
                     pendingFrames = SubSeq(pendingFrames', 1, i - 1)]_vars

\* the socket is down while a frame is buffered, a watch is started and a type in error
C26_Witness ==
    /\ socket # Null /\ socket.state = "reconnecting"
    /\ pendingFrames # <<>>
    /\ started # <<>>
    /\ DOMAIN inError # {}

(***************************************************************************)
(* Properties of the connected event.                                      *)
(***************************************************************************)
\* the first connected event of a socket stops and reissues no watch: started is the
\* same and the frames handed to the socket are the buffered ones
FirstConnectReplaysOnly ==
    (SocketConnected /\ ~socket'.hasReconnected)
        => /\ started' = started
           /\ wire' = wire \o pendingFrames

\* at a reconnect every started watch is subscribed to again, in the order of started,
\* and the buffered frames are handed to the socket behind those frames
ReconnectReissuesFirst ==
    (SocketConnected /\ socket'.hasReconnected)
        => /\ Len(wire') = Len(started) + Len(pendingFrames)
           /\ \A n \in 1..Len(started) : ReissuedFor(started[n], wire'[n])
           /\ \A n \in 1..Len(pendingFrames) : wire'[Len(started) + n] = pendingFrames[n]

\* C27: watches are reissued on a reconnect only: at the first connected event of a
\* socket no watch is stopped or reissued, started stays as it is and only the buffered
\* frames are sent; at a reconnect the started watches are reissued before the buffered
\* frames are replayed
C27_ReissuedOnReconnectOnly == [][FirstConnectReplaysOnly /\ ReconnectReissuesFirst]_vars

(***************************************************************************)
(* Properties of resource.stop and resource.error.                         *)
(***************************************************************************)
\* the timers of ws.resource.stop that are pending among the tasks ts
RetryTimers(ts) == {k \in DOMAIN ts : ts[k].pc = "timer"}

\* whether started, as the sequence entries, holds a watch equivalent to obj
StartedIn(entries, obj) == \E i \in 1..Len(entries) : watchesAreEquivalent(obj, entries[i])

\* whether the store has a schema for the type
HasSchema(type) == schemasLoaded(Store) /\ schemaFor(Store, type) # NoObj

\* a resource.stop for a started descriptor whose type has a schema takes the descriptor
\* out of started in the handler, sends no frame there and sets one timer of 5 seconds
\* for the descriptor; for a descriptor that is not started it changes nothing and sets
\* no timer
StopHandled ==
    \A msg \in Inbounds :
        (msg.name = "resource.stop" /\ SocketMessage(msg)) =>
            IF StartedIn(started, DescOf(msg))
            THEN HasSchema(msg.resourceType) =>
                     /\ ~StartedIn(started', DescOf(msg))
                     /\ Len(started') = Len(started) - 1
                     /\ wire' = wire /\ pendingFrames' = pendingFrames
                     /\ \E k \in RetryTimers(tasks') :
                            /\ RetryTimers(tasks') = RetryTimers(tasks) \cup {k}
                            /\ k \notin DOMAIN tasks
                            /\ tasks'[k].data = <<DescOf(msg)>>
                            /\ tasks'[k].delay = 5000
            ELSE /\ StoreKept
                 /\ RetryTimers(tasks') = RetryTimers(tasks)

\* the timer of a resource.stop calls watch for its descriptor once: the timer is gone,
\* and one subscribe frame for the descriptor is sent or buffered unless the descriptor
\* is in error or started again, when none is
RetriedOnce ==
    \A k \in RetryTimers(tasks) :
        StopTimer(k) =>
            LET obj == tasks[k].data[1]
                before == wire \o pendingFrames
                after == wire' \o pendingFrames'
            IN  /\ RetryTimers(tasks') = RetryTimers(tasks) \ {k}
                /\ started' = started
                /\ IF canWatch(Store, obj) /\ ~StartedIn(started, obj)
                   THEN /\ Len(after) = Len(before) + 1
                        /\ ReissuedFor(obj, after[Len(after)])
                   ELSE after = before

\* C28: a resource.stop for a started descriptor whose type has a schema removes it
\* from started at once and causes one watch call for it 5 seconds later and none
\* before; a resource.stop for a descriptor that is not started changes nothing and
\* sets no retry
C28_StopRetriesOnce == [][StopHandled /\ RetriedOnce]_vars

\* the watch of the pods was stopped by the server and its timer has fired: the watch is
\* out of started and its frame has been sent a second time
C28_Witness ==
    /\ "called" \in DOMAIN ret /\ ret.called = "ws.resource.stop" /\ ret.val = ""
    /\ started = <<>>
    /\ RetryTimers(tasks) = {}
    /\ Len(wire) = 2
    /\ wire[2] = Frame("pod", Undefined, Undefined, FALSE, Undefined, Undefined)

\* whether the descriptor is in error for the reason after the step
InErrorNext(obj, reason) ==
    /\ keyForSubscribe(obj) \in DOMAIN inError'
    /\ inError'[keyForSubscribe(obj)] = reason

\* C29: a resource.error for a descriptor with the reason watch not allowed or failed
\* to find schema puts the descriptor in error, NO_WATCH or NO_SCHEMA being recorded
\* under the subscribe key of the descriptor; a resource.error with the reason too old
\* does not put it in error and starts a resync of the descriptor's scope
C29_ErrorClassified ==
    [][\A msg \in Inbounds :
           (msg.name = "resource.error" /\ SocketMessage(msg)) =>
               /\ msg.error = "watch not allowed" => InErrorNext(DescOf(msg), NO_WATCH)
               /\ msg.error = "failed to find schema" => InErrorNext(DescOf(msg), NO_SCHEMA)
               /\ msg.error = "too old" =>
                      /\ inError' = inError
                      /\ \E k \in DOMAIN tasks' : tasks'[k].op = "resyncWatch"]_vars

(***************************************************************************)
(* Properties of findAll calls that overlap.                               *)
(***************************************************************************)
\* the payloads of the resources in the list of a type's cache after the step, in the
\* order of the list
ListedNext(type) ==
    [i \in 1..Len(types'[type].list) |-> heap'[types'[type].list[i]]]

\* a forced findAll in the mode all issues a request of its own, whatever calls are
\* under way
OwnRequest ==
    (FindAll("pod", Opt(TRUE, "all", FALSE)) /\ ~urlForThrows(Store, "pod"))
        => \E k \in DOMAIN tasks' \ DOMAIN tasks :
               tasks'[k].op = "findAll" /\ tasks'[k].pc = "request"

\* when the last of the calls under way completes, the cache holds the data of the
\* response of that call, whose loadAll was applied last, and nothing else: no resource
\* of another response and no id twice
LastResponseWins ==
    \A k \in DOMAIN tasks :
        (/\ tasks[k].op = "findAll"
         /\ LoadAllDone(k, FALSE)
         /\ DOMAIN tasks' = {})
            => ListedNext("pod") = tasks[k].data

\* C30: findAll calls for the same type that overlap, forced and in the mode all, each
\* issue a request of their own, and once all have completed the cache of the type
\* holds the data of one response, the one whose loadAll was applied last, with no
\* resource of another response and no id twice in the list
C30_LastResponseWins == [][OwnRequest /\ LastResponseWins]_vars

(***************************************************************************)
(* Properties of the guard of watch.                                       *)
(***************************************************************************)
\* whether the step has handed one subscribe frame for the descriptor to the socket, or
\* put one at the end of the buffer
SubscribedTo(d) ==
    \/ /\ pendingFrames' = pendingFrames
       /\ Len(wire') = Len(wire) + 1
       /\ SubSeq(wire', 1, Len(wire)) = wire
       /\ ReissuedFor(d, wire'[Len(wire')])
    \/ /\ wire' = wire
       /\ Len(pendingFrames') = Len(pendingFrames) + 1
       /\ SubSeq(pendingFrames', 1, Len(pendingFrames)) = pendingFrames
       /\ ReissuedFor(d, pendingFrames'[Len(pendingFrames')])

\* C31: a watch call without stop sends or buffers a subscribe frame only if the
\* descriptor is not started and, unless force is set, not in error; for a descriptor
\* that is started the call sends and buffers no frame and changes no state
C31_WatchGuard ==
    [][\A d \in Descs, force \in BOOLEAN :
           (UNCHANGED <<started, inError, ret, socket>> /\ Watch(d, force)) =>
               /\ (wire' # wire \/ pendingFrames' # pendingFrames) =>
                      /\ ~StartedIn(started, d)
                      /\ force \/ keyForSubscribe(d) \notin DOMAIN inError
                      /\ SubscribedTo(d)
               /\ StartedIn(started, d) => UNCHANGED vars]_vars

\* a watch is started, a type is in error and a frame of a watch call is on its way
C31_Witness ==
    /\ started # <<>>
    /\ DOMAIN inError # {}
    /\ wire # <<>>
    /\ \E i \in 1..Len(started) : ~watchesAreEquivalent(started[i], DescOf(wire[1]))

(***************************************************************************)
(* Properties of the watch of findAll.                                     *)
(***************************************************************************)
\* whether the step ends the findAll call k, in the mode all or multi, with the load it
\* awaited last, the type of the store being watchable or not
EndsFindAll(k, watchable) ==
    /\ tasks[k].op = "findAll" /\ tasks[k].load \in {"all", "multi"}
    /\ tasks[k].pc # "request"
    /\ k \notin DOMAIN tasks'
    /\ \/ LoadAllDone(k, watchable)
       \/ \E j \in DOMAIN tasks : tasks[j].parent = k /\ LoadDone(j, watchable)

\* the frame the step has handed to the socket or buffered, when it is one
LastFrame == IF wire' # wire THEN wire'[Len(wire')] ELSE pendingFrames'[Len(pendingFrames')]

\* a findAll for a watchable type that was not told not to watch ends with the resources
\* of the response cached and one subscribe frame for the whole type, which carries the
\* revision of the response
WatchesAfterLoad ==
    \A k \in DOMAIN tasks :
        (EndsFindAll(k, TRUE) /\ tasks[k].watch) =>
            /\ \A i \in 1..Len(tasks[k].data) : CachedNext(tasks[k].data[i])
            /\ SubscribedTo(Desc(tasks[k].type, Undefined, Undefined, Undefined))
            /\ LastFrame.resourceVersion = tasks[k].rev

\* a findAll that was told not to watch sends and buffers no frame
NoWatchWhenTold ==
    \A k \in DOMAIN tasks, w \in BOOLEAN :
        (EndsFindAll(k, w) /\ ~tasks[k].watch) => UNCHANGED <<wire, pendingFrames>>

\* C32: after a findAll of a watchable type T in the mode all or multi that succeeded
\* and was not called with watch false, one watch of the whole type T is requested, with
\* the normalized T as resourceType, no id and the revision of the response as
\* resourceVersion, and only once the resources of the response are cached; with watch
\* false none is requested
C32_WatchAfterLoad == [][WatchesAfterLoad /\ NoWatchWhenTold]_vars

(***************************************************************************)
(* Properties of schemaFor.                                                *)
(***************************************************************************)
\* whether no loaded schema has the type as its id, or an id that ends with a dot and
\* the type
Unknown(type) ==
    \A i \in 1..Len(types[SCHEMA].list) :
        LET thisOne == normalizeType(heap[types[SCHEMA].list[i]].id)
        IN  thisOne # normalizeType(type) /\ ~endsWithDot(thisOne, normalizeType(type))

\* C33: before the schema cache exists schemaFor throws that the schemas are not loaded
\* when allowThrow is set and returns an empty result, without throwing, when it is not;
\* once the cache exists the lookup of an unknown type, fuzzy or not, returns no schema,
\* does not throw and enters schemaFor twice at most; no lookup changes the store
C33_SchemaForLookup ==
    [][\A type \in Lookups, fuzzy \in BOOLEAN, allowThrow \in BOOLEAN :
           (ret'.op = "schemaFor" /\ SchemaFor(type, fuzzy, allowThrow)) =>
               /\ StoreKept
               /\ (SCHEMA \notin DOMAIN types /\ allowThrow) => ret'.val = "Error"
               /\ (SCHEMA \notin DOMAIN types /\ ~allowThrow) =>
                      (ret'.val = "null" /\ ret'.out = NoObj)
               /\ (SCHEMA \in DOMAIN types /\ Unknown(type)) =>
                      /\ ret'.val = Undefined
                      /\ ret'.out = NoObj
                      /\ ret'.calls <= 2]_vars

\* a fuzzy lookup of a type no loaded schema is for has returned nothing, after it
\* entered schemaFor a second time
C33_Witness ==
    /\ "calls" \in DOMAIN ret /\ ret.op = "schemaFor"
    /\ ret.arg = "node" /\ ret.fuzzy
    /\ ret.val = Undefined /\ ret.calls = 2
    /\ SCHEMA \in DOMAIN types /\ types[SCHEMA].list # <<>>

(***************************************************************************)
(* Properties of queueChange.                                              *)
(***************************************************************************)
\* whether the message carries data of a type that is no schema and that the store
\* has registered
ForRegistered(m) == ResourceEvent(m) /\ normalizeType(m.data.type) \in DOMAIN types

\* a message without data, or of a type that the store has not registered, is ignored:
\* the handler returns, and the queue and the caches are as they were
IgnoredWhenUnknown ==
    \A m \in Events :
        ((m.data = NoData \/ (ResourceEvent(m) /\ ~ForRegistered(m))) /\ WsEvent(m))
            => /\ ret'.val = ""
               /\ queue' = queue
               /\ types' = types

\* a message of a registered type that is no schema appends one action to the tail of
\* the queue, a load or, for a removal, a remove
QueuedWhenRegistered ==
    \A m \in Events :
        (ForRegistered(m) /\ WsEvent(m))
            => /\ Len(queue') = Len(queue) + 1
               /\ SubSeq(queue', 1, Len(queue)) = queue
               /\ queue'[Len(queue')].action
                      = IF m.name = "ws.resource.remove" THEN "remove" ELSE "load"

\* C34: queueChange ignores a message without data or of a type without a registered
\* store, leaving the queue and every cache as they were, and appends exactly one
\* action, load or remove, to the tail of the queue for a registered type that is no
\* schema
C34_QueueChange == [][IgnoredWhenUnknown /\ QueuedWhenRegistered]_vars

(***************************************************************************)
(* Properties of the progress of the flush.                                *)
(***************************************************************************)
\* the handler of the change event has been the last to run
Received(m) == ret.op = m.name /\ ret.arg = m.data.id

\* the cache holds what the change event brings: the resource as the event carries it,
\* or, for a removal, no resource of that id
Applied(m) ==
    LET o == byId([types |-> types], m.data.type, m.data.id)
    IN  IF m.name = "ws.resource.remove" THEN o = NoObj ELSE o # NoObj /\ heap[o] = m.data

\* the socket is connected
Connected == socket # Null /\ socket.state = "connected"

\* C35: while the socket stays connected, every change event received for a registered
\* type is eventually applied to the cache by a flush, the timer and the awaited loads
\* being scheduled fairly
C35_EventuallyApplied ==
    \A m \in LiveEvents :
        (Received(m) /\ ForRegistered(m)) ~> (Applied(m) \/ ~Connected)

(***************************************************************************)
(* Properties of ws.resource.start.                                        *)
(***************************************************************************)
\* C36: a resource.start message for a descriptor leaves the descriptor in started and
\* clears the error recorded for it, whatever it was, so that canWatch is true of it
C36_StartClearsError ==
    [][\A msg \in StartMessages :
           (ret'.op = "message" /\ msg.name = "resource.start" /\ SocketMessage(msg))
               => /\ StartedIn(started', DescOf(msg))
                  /\ canWatch([inError |-> inError'], DescOf(msg))]_vars

\* a resource.start has been handled; the watches of the pods and of the nodes are
\* started, the pods are free of an error and the nodes are in error
C36_Witness ==
    /\ ret.op = "message" /\ ret.arg = "resource.start"
    /\ StartedIn(started, Desc("pod", Undefined, Undefined, Undefined))
    /\ canWatch([inError |-> inError], Desc("pod", Undefined, Undefined, Undefined))
    /\ ~canWatch([inError |-> inError], Desc("node", Undefined, Undefined, Undefined))
    /\ StartedIn(started, Desc("node", Undefined, Undefined, Undefined))

(***************************************************************************)
(* Properties of the hand-over of the queue to a flush.                    *)
(***************************************************************************)
\* the action queueChange builds for a change event
ActionOf(m) ==
    IF m.name = "ws.resource.remove"
    THEN [action |-> "remove", type |-> m.data.type, id |-> m.data.id, body |-> NoData,
          event |-> Undefined]
    ELSE [action |-> "load", type |-> normalizeType(m.data.type), id |-> Undefined,
          body |-> m.data, event |-> IF m.name = "ws.resource.create" THEN "create" ELSE "change"]

\* how often the queue holds the action
Queued(q, a) == Cardinality({i \in 1..Len(q) : q[i] = a})

\* a change event of a registered type puts its action in the queue once, whatever the
\* queue holds and whether or not a flush has taken the actions before it
QueuedOnce ==
    \A m \in Events :
        (ForRegistered(m) /\ WsEvent(m))
            => /\ Queued(queue', ActionOf(m)) = Queued(queue, ActionOf(m)) + 1
               /\ Len(queue') = Len(queue) + 1

\* a flush takes every action of the queue and leaves an empty queue, so that no later
\* flush meets an action again, and each load it takes is in the cache unless a later
\* action of the same flush is on the same resource
TakenOnce ==
    (FlushTimer /\ queue # <<>>)
        => /\ queue' = <<>>
           /\ ret'.val # "TypeError"
           /\ LastWriteWins

\* C37: every action appended to the queue is applied exactly once: a change event
\* appends its action once, also while a flush is in progress, and a flush takes the
\* queue as it is and installs an empty one before it applies the actions it took
C37_AppliedExactlyOnce == [][QueuedOnce /\ TakenOnce]_vars

(***************************************************************************)
(* Properties of the flag of setupMgmt.                                    *)
(***************************************************************************)
\* what setupMgmt has invoked on the management store
Invoked(c) == <<c.configure, c.subscribe, c.loadSchemas>>

\* a call that gets into setupMgmt leaves mgmtSetup set, whether it fails or not
SetByTheCall == (SetupMgmt /\ context'.build = "unbound") => context'.mgmtSetup

\* a call made once mgmtSetup is set returns and invokes nothing, so that nothing a
\* failed call has left undone is tried again
NoRetry ==
    (SetupMgmt /\ context.mgmtSetup)
        => /\ context'.val = "returned"
           /\ Invoked(context') = Invoked(context)

\* C38: mgmtSetup is set before anything in setupMgmt is awaited or can fail, and is
\* never cleared: a later call, made while the first is under way or after it has
\* failed, returns at once, and no call tries again what a failed call left undone
C38_FlagStaysSet ==
    [][SetByTheCall /\ NoRetry /\ (context.mgmtSetup => context'.mgmtSetup)]_vars

\* a call has returned at the flag with the schemas never asked for: the call before it
\* has failed
C38_Witness ==
    /\ context.calls >= 2
    /\ context.val = "returned"
    /\ context.mgmtSetup
    /\ context.loadSchemas = 0
====
